---- MODULE Spec2Model ----
(***************************************************************************)
(* Model of the JSON key-value store of shareroom                          *)
(* (src/API/modules/database.py, src/API/models/db_models.py).             *)
(*                                                                         *)
(* Python values are records [t, n, s, l]:                                 *)
(*   t  the runtime type: "none", "str", "int", "bool", "list", and        *)
(*      "raise" for an exception leaving a function instead of a value;    *)
(*   n  the number of an int, 1/0 for a bool;                              *)
(*   s  the characters of a str (a sequence of one-character strings),     *)
(*      or the exception's name for "raise";                               *)
(*   l  the items of a list (a sequence of values).                        *)
(* A table file is a function from keys (character sequences) to           *)
(* documents; a document is a function from field names to values.         *)
(***************************************************************************)
EXTENDS Integers, Sequences, FiniteSets, TLC

VARIABLES
    table,   \* the name of the table the handle was built for
    file,    \* the content of the table's JSON file: key -> document
    prev,    \* the content of the file when the latest call started
    trace,   \* the calls made on the handle so far, with their outcome
    uuid,    \* the hex strings the next calls of uuid.uuid4() produce
    exists,  \* whether the table's file exists
    garbage, \* the text of the table's file when it is no JSON, else <<>>
    dump,    \* the text of the table's .dump file
    register,\* Database.register: table name -> the object registered
    handles, \* the objects the constructions made, as their callers got them
    threads, \* the writers running side by side: their step and their locals
    dbs,     \* the files of the application's tables: table name -> content
    now,     \* the clock: the POSIX time in seconds
    stacks,  \* RelationStackManager.register: relation id -> stack
    reqs     \* the requests served so far, with their response

appvars == <<dbs, now, stacks, reqs>>

vars ==
    <<table, file, prev, trace, uuid, exists, garbage, dump, register, handles,
      threads, dbs, now, stacks, reqs>>

-----------------------------------------------------------------------------
(* Python values *)

None == [t |-> "none", n |-> 0, s |-> <<>>, l |-> <<>>]

Str(chars) == [t |-> "str", n |-> 0, s |-> chars, l |-> <<>>]

IntV(i) == [t |-> "int", n |-> i, s |-> <<>>, l |-> <<>>]

Bool(b) == [t |-> "bool", n |-> IF b THEN 1 ELSE 0, s |-> <<>>, l |-> <<>>]

List(items) == [t |-> "list", n |-> 0, s |-> <<>>, l |-> items]

Raise(exc) == [t |-> "raise", n |-> 0, s |-> <<exc>>, l |-> <<>>]

IsRaise(v) == v.t = "raise"

(* isinstance(value, type_): bool is a subclass of int *)
IsInstance(v, type_) ==
    \/ v.t = type_
    \/ type_ = "int" /\ v.t = "bool"

(* isinstance(value, Iterable) *)
IsIterable(v) == v.t \in {"str", "list"}

(* a == b of Python: True == 1 and False == 0, lists compare item by item *)
RECURSIVE PyEq(_, _)
PyEq(a, b) ==
    IF a.t \in {"int", "bool"} /\ b.t \in {"int", "bool"} THEN a.n = b.n
    ELSE IF a.t = "list" /\ b.t = "list"
         THEN /\ Len(a.l) = Len(b.l)
              /\ \A i \in 1..Len(a.l) : PyEq(a.l[i], b.l[i])
    ELSE a = b

(* value in current_data *)
PyIn(v, items) == \E i \in 1..Len(items) : PyEq(items[i], v)

(* current_data.remove(value): drops the first item equal to value *)
PyRemove(items, v) ==
    LET i == CHOOSE j \in 1..Len(items) :
                 /\ PyEq(items[j], v)
                 /\ \A h \in 1..(j - 1) : ~PyEq(items[h], v)
    IN  SubSeq(items, 1, i - 1) \o SubSeq(items, i + 1, Len(items))

DigitChars == <<"0", "1", "2", "3", "4", "5", "6", "7", "8", "9">>

RECURSIVE Digits(_)
Digits(i) ==
    IF i < 10 THEN <<DigitChars[i + 1]>>
    ELSE Digits(i \div 10) \o <<DigitChars[(i % 10) + 1]>>

IntChars(i) == IF i < 0 THEN <<"-">> \o Digits(0 - i) ELSE Digits(i)

DigitValue(c) == (CHOOSE d \in 1..10 : DigitChars[d] = c) - 1

IsDigit(c) == \E d \in 1..10 : DigitChars[d] = c

RECURSIVE ParseDigits(_, _)
ParseDigits(chars, acc) ==
    IF chars = <<>> THEN acc
    ELSE ParseDigits(Tail(chars), acc * 10 + DigitValue(Head(chars)))

Join(seqs, sep) ==
    LET RECURSIVE J(_)
        J(i) == IF i > Len(seqs) THEN <<>>
                ELSE IF i = Len(seqs) THEN seqs[i]
                ELSE seqs[i] \o sep \o J(i + 1)
    IN  J(1)

(* repr(value), as str(list) formats the items *)
RECURSIVE PyRepr(_)
PyRepr(v) ==
    CASE v.t = "none" -> <<"N", "o", "n", "e">>
      [] v.t = "str"  -> <<"'">> \o v.s \o <<"'">>
      [] v.t = "int"  -> IntChars(v.n)
      [] v.t = "bool" -> IF v.n = 1 THEN <<"T", "r", "u", "e">>
                         ELSE <<"F", "a", "l", "s", "e">>
      [] v.t = "list" ->
            <<"[">> \o Join([i \in 1..Len(v.l) |-> PyRepr(v.l[i])], <<",", " ">>)
                    \o <<"]">>

(* type_(): the zero value of a type *)
TypeZero(type_) ==
    CASE type_ = "str"  -> Str(<<>>)
      [] type_ = "int"  -> IntV(0)
      [] type_ = "bool" -> Bool(FALSE)
      [] type_ = "list" -> List(<<>>)

(* type_(value): the constructor call of prepare_value *)
TypeCast(type_, v) ==
    CASE type_ = "str" ->
            IF v.t = "str" THEN v ELSE Str(PyRepr(v))
      [] type_ = "int" ->
            IF v.t \in {"int", "bool"} THEN IntV(v.n)
            ELSE IF v.t = "str"
                 THEN LET body == IF v.s # <<>> /\ Head(v.s) \in {"-", "+"}
                                  THEN Tail(v.s) ELSE v.s
                          neg == v.s # <<>> /\ Head(v.s) = "-"
                      IN  IF body # <<>> /\ \A i \in 1..Len(body) : IsDigit(body[i])
                          THEN IntV(IF neg THEN 0 - ParseDigits(body, 0)
                                   ELSE ParseDigits(body, 0))
                          ELSE Raise("ValueError")
            ELSE Raise("TypeError")
      [] type_ = "bool" ->
            Bool(CASE v.t = "str"  -> v.s # <<>>
                   [] v.t = "list" -> v.l # <<>>
                   [] v.t = "none" -> FALSE
                   [] OTHER        -> v.n # 0)
      [] type_ = "list" ->
            IF v.t = "list" THEN v
            ELSE IF v.t = "str" THEN List([i \in 1..Len(v.s) |-> Str(<<v.s[i]>>)])
            ELSE Raise("TypeError")

-----------------------------------------------------------------------------
(* db_models.py: sentinels and the declared tables *)

NOT_REQUIRED == Str(<<"_", "N", "O", "T", "R", "E", "Q">>)

KEY_AS_UUID4 == <<"_UUID4KEY">>

UNDEFINED_DEFAULT_VALUE == Str(<<"_", "N", "O", "T", "D", "E", "F">>)

(* one annotated class variable: `name: type_` or `name: type_ = attr` *)
Required(name, type_) ==
    [name |-> name, type_ |-> type_, has |-> FALSE, attr |-> None]

Optional(name, type_, attr) ==
    [name |-> name, type_ |-> type_, has |-> TRUE, attr |-> attr]

(* A key provider is kept as the sequence of its tokens:                   *)
(* "!user_key" is <<"!", "user_key">>, "author+target" is                  *)
(* <<"author", "+", "target">>.                                            *)
UserModel ==
    [name |-> "users", key_provider |-> <<"username">>,
     allow_invalid_values |-> TRUE, dump_on_error |-> TRUE,
     fields |-> << Required("username", "str"),
                   Required("password", "str"),
                   Optional("allow_friend_request", "bool", Bool(TRUE)),
                   Optional("friends", "list", NOT_REQUIRED),
                   Optional("date_join", "int", NOT_REQUIRED),
                   Optional("last_interaction", "int", NOT_REQUIRED),
                   Optional("active_rooms", "list", NOT_REQUIRED) >>]

RoomModel ==
    [name |-> "rooms", key_provider |-> <<"name">>,
     allow_invalid_values |-> TRUE, dump_on_error |-> TRUE,
     fields |-> << Required("name", "str"),
                   Required("admin", "str"),
                   Required("date_created", "int"),
                   Required("last_interaction", "int"),
                   Optional("max_users", "int", IntV(5)),
                   Optional("is_locked", "bool", Bool(FALSE)),
                   Optional("password", "str", NOT_REQUIRED),
                   Optional("members", "list", NOT_REQUIRED) >>]

SessionModel ==
    [name |-> "sessions", key_provider |-> <<"!", "user_key">>,
     allow_invalid_values |-> TRUE, dump_on_error |-> TRUE,
     fields |-> << Required("user_key", "str"),
                   Required("session_id", "str"),
                   Required("date_created", "int"),
                   Optional("date_renewed", "int", NOT_REQUIRED) >>]

FriendRequestsModel ==
    [name |-> "friend_requests", key_provider |-> <<"author", "+", "target">>,
     allow_invalid_values |-> TRUE, dump_on_error |-> TRUE,
     fields |-> << Required("author", "str"),
                   Required("target", "str"),
                   Required("date_sent", "int") >>]

Models == {UserModel, RoomModel, SessionModel, FriendRequestsModel}

(* a table declared with the random key rule and the defaults of           *)
(* DBModel.model (allow_invalid_values and dump_on_error left out); the    *)
(* application declares none                                               *)
TicketModel ==
    [name |-> "tickets", key_provider |-> KEY_AS_UUID4,
     allow_invalid_values |-> FALSE, dump_on_error |-> FALSE,
     fields |-> << Required("owner", "str"),
                   Optional("uses", "int", IntV(0)) >>]

-----------------------------------------------------------------------------
(* database.py: Column *)

Column(name, type_, default) == [name |-> name, type_ |-> type_, default |-> default]

HasDefault(column) == column.default # UNDEFINED_DEFAULT_VALUE

(* Column.prepare_value: the value to store, or the exception raised *)
prepare_value(column, value) ==
    IF PyEq(value, NOT_REQUIRED)
    THEN IF HasDefault(column) THEN column.default ELSE TypeZero(column.type_)
    ELSE IF value = None
         THEN IF HasDefault(column) THEN TypeZero(column.type_)
              ELSE Raise("RequiredValueNotProvided")
    ELSE IF ~IsInstance(value, column.type_) THEN TypeCast(column.type_, value)
    ELSE value

(* Column.validate *)
validate(column, value) == IsInstance(value, column.type_)

-----------------------------------------------------------------------------
(* database.py: Database *)

(* Database.__build_from_model: the columns, in the order of the fields *)
build_from_model(model) ==
    [i \in 1..Len(model.fields) |->
        LET field == model.fields[i]
        IN  Column(field.name, field.type_,
                   IF field.has THEN field.attr ELSE UNDEFINED_DEFAULT_VALUE)]

(* Database.__init__ for a name not yet in the register *)
Database(model) ==
    [name |-> model.name,
     key_provider |-> model.key_provider,
     allow_invalid_values |-> model.allow_invalid_values,
     dump_on_error |-> model.dump_on_error,
     columns |-> build_from_model(model)]

(* the handles built at import time: users_db, rooms_db, sessions_db,      *)
(* friend_requests_db                                                      *)
get_database(name) ==
    Database(CHOOSE model \in Models \cup {TicketModel} : model.name = name)

FieldNames(db) == {db.columns[i].name : i \in 1..Len(db.columns)}

ColumnOf(db, name) ==
    db.columns[CHOOSE i \in 1..Len(db.columns) : db.columns[i].name = name]

(* hashlib.sha1(seed.encode()).hexdigest(): the digest is kept symbolic,   *)
(* as a string no seed equals and that differs for different seeds         *)
Sha1Hex(seed) == <<"sha1(">> \o seed \o <<")">>

(* the attribute names a key provider lists between its "+" signs *)
SplitPlus(tokens) == SelectSeq(tokens, LAMBDA tok : tok # "+")

(* uuid.uuid4().hex: the draws are taken to differ from one another, so    *)
(* uuid holds distinct strings and a draw takes the first of them          *)
uuid4_hex == Head(uuid)

(* parse_key_provider taking, under the random key rule, the digest of the *)
(* model's attributes for the key                                          *)
parse_key_provider_of_content(key_provider, model) ==
    LET no_hash == Head(key_provider) = "!"
        stripped == IF no_hash THEN Tail(key_provider) ELSE key_provider
        attributes == SplitPlus(stripped)
        RECURSIVE Concat(_, _)
        Concat(i, key_seed) ==
            IF i > Len(attributes) THEN Str(key_seed)
            ELSE IF model[attributes[i]].t # "str" THEN Raise("TypeError")
            ELSE Concat(i + 1, key_seed \o model[attributes[i]].s)
        key_seed == IF \E i \in 1..Len(stripped) : stripped[i] = "+"
                    THEN Concat(1, <<>>)
                    ELSE model[stripped[1]]
        first == CHOOSE f \in DOMAIN model : TRUE
    IN  IF key_provider = KEY_AS_UUID4 THEN Str(Sha1Hex(PyRepr(model[first])))
        ELSE IF IsRaise(key_seed) \/ no_hash THEN key_seed
        ELSE IF key_seed.t # "str" THEN Raise("AttributeError")
        ELSE Str(Sha1Hex(key_seed.s))

(* parse_key_provider hashing, with the key seed, the number of attributes *)
(* the model leaves at NOT_REQUIRED                                        *)
parse_key_provider_salted(key_provider, model) ==
    LET no_hash == Head(key_provider) = "!"
        stripped == IF no_hash THEN Tail(key_provider) ELSE key_provider
        attributes == SplitPlus(stripped)
        RECURSIVE Concat(_, _)
        Concat(i, key_seed) ==
            IF i > Len(attributes) THEN Str(key_seed)
            ELSE IF model[attributes[i]].t # "str" THEN Raise("TypeError")
            ELSE Concat(i + 1, key_seed \o model[attributes[i]].s)
        key_seed == IF \E i \in 1..Len(stripped) : stripped[i] = "+"
                    THEN Concat(1, <<>>)
                    ELSE model[stripped[1]]
        salt == IntChars(Cardinality({f \in DOMAIN model : model[f] = NOT_REQUIRED}))
    IN  IF key_provider = KEY_AS_UUID4 THEN Str(uuid4_hex)
        ELSE IF IsRaise(key_seed) \/ no_hash THEN key_seed
        ELSE IF key_seed.t # "str" THEN Raise("AttributeError")
        ELSE Str(Sha1Hex(key_seed.s \o salt))

(* parse_key_provider: the key as a Python value, or the exception raised  *)
parse_key_provider(key_provider, model) ==
    LET no_hash == Head(key_provider) = "!"
        stripped == IF no_hash THEN Tail(key_provider) ELSE key_provider
        attributes == SplitPlus(stripped)
        RECURSIVE Concat(_, _)
        Concat(i, key_seed) ==
            IF i > Len(attributes) THEN Str(key_seed)
            ELSE IF model[attributes[i]].t # "str" THEN Raise("TypeError")
            ELSE Concat(i + 1, key_seed \o model[attributes[i]].s)
        key_seed == IF \E i \in 1..Len(stripped) : stripped[i] = "+"
                    THEN Concat(1, <<>>)
                    ELSE model[stripped[1]]
    IN  IF key_provider = KEY_AS_UUID4 THEN Str(uuid4_hex)
        ELSE IF IsRaise(key_seed) \/ no_hash THEN key_seed
        ELSE IF key_seed.t # "str" THEN Raise("AttributeError")
        ELSE Str(Sha1Hex(key_seed.s))

(* the key json.dump writes for a dict key, read back as a str by json.load; *)
(* a list is unhashable and cannot index the dict                          *)
JsonKey(db_key) ==
    CASE db_key.t = "str"  -> db_key
      [] db_key.t = "int"  -> Str(IntChars(db_key.n))
      [] db_key.t = "bool" -> Str(IF db_key.n = 1 THEN <<"t", "r", "u", "e">>
                                  ELSE <<"f", "a", "l", "s", "e">>)
      [] db_key.t = "none" -> Str(<<"n", "u", "l", "l">>)
      [] OTHER             -> Raise("TypeError")

(* what a call leaves behind: the table file, the exception that reached   *)
(* the caller ("" when the call returned) and the value returned           *)
Returned(db_content, ret) == [file |-> db_content, exc |-> "", ret |-> ret]

Raised(db_content, exc) == [file |-> db_content, exc |-> exc, ret |-> None]

(* marks the `return` of __save_model for a value it may not store *)
NotSaved == [t |-> "return", n |-> 0, s |-> <<>>, l |-> <<>>]

(* column_content with the prepared value dropped: the raw value is what   *)
(* is validated and stored                                                 *)
column_content_raw(db, column, raw) ==
    LET value == prepare_value(column, raw)
    IN  IF IsRaise(value) THEN value
        ELSE IF validate(column, raw) THEN raw
        ELSE IF HasDefault(column) THEN column.default
        ELSE IF db.allow_invalid_values THEN TypeZero(column.type_)
        ELSE NotSaved

(* one round of the loop of __save_model: the value put in content for a   *)
(* column, the exception of prepare_value, or NotSaved                     *)
column_content(db, column, raw) ==
    LET value == prepare_value(column, raw)
    IN  IF IsRaise(value) THEN value
        ELSE IF validate(column, value) THEN value
        ELSE IF HasDefault(column) THEN column.default
        ELSE IF db.allow_invalid_values THEN TypeZero(column.type_)
        ELSE NotSaved

(* __save_model writing every attribute of the model object, _key too *)
save_model_all_attributes(db, db_content, model, db_key) ==
    LET key == IF db_key = None THEN parse_key_provider(db.key_provider, model)
               ELSE db_key
        values == [i \in 1..Len(db.columns) |->
                      column_content(db, db.columns[i], model[db.columns[i].name])]
        stops == {i \in 1..Len(db.columns) : values[i].t \in {"raise", "return"}}
        first == CHOOSE i \in stops : \A j \in stops : i <= j
        content == [name \in DOMAIN model |->
                       IF name \in FieldNames(db)
                       THEN values[CHOOSE i \in 1..Len(db.columns) :
                                       db.columns[i].name = name]
                       ELSE model[name]]
    IN  IF IsRaise(key) THEN Raised(db_content, key.s[1])
        ELSE IF stops # {}
             THEN IF IsRaise(values[first])
                  THEN Raised(db_content, values[first].s[1])
                  ELSE Returned(db_content, None)
        ELSE IF IsRaise(JsonKey(key)) THEN Raised(db_content, "TypeError")
        ELSE Returned([k \in DOMAIN db_content \cup {JsonKey(key).s} |->
                          IF k = JsonKey(key).s THEN content ELSE db_content[k]],
                      key)

(* __save_model storing, when prepare_value raises, the columns prepared   *)
(* before the one that failed                                              *)
save_model_partial(db, db_content, model, db_key) ==
    LET key == IF db_key = None THEN parse_key_provider(db.key_provider, model)
               ELSE db_key
        values == [i \in 1..Len(db.columns) |->
                      column_content(db, db.columns[i], model[db.columns[i].name])]
        stops == {i \in 1..Len(db.columns) : values[i].t \in {"raise", "return"}}
        first == CHOOSE i \in stops : \A j \in stops : i <= j
        content == [name \in FieldNames(db) |->
                       values[CHOOSE i \in 1..Len(db.columns) :
                                  db.columns[i].name = name]]
        partial == [name \in {db.columns[i].name : i \in 1..(first - 1)} |->
                       content[name]]
    IN  IF IsRaise(key) THEN Raised(db_content, key.s[1])
        ELSE IF stops # {}
             THEN IF IsRaise(values[first])
                  THEN Raised([k \in DOMAIN db_content \cup {JsonKey(key).s} |->
                                  IF k = JsonKey(key).s THEN partial
                                  ELSE db_content[k]],
                              values[first].s[1])
                  ELSE Returned(db_content, None)
        ELSE IF IsRaise(JsonKey(key)) THEN Raised(db_content, "TypeError")
        ELSE Returned([k \in DOMAIN db_content \cup {JsonKey(key).s} |->
                          IF k = JsonKey(key).s THEN content ELSE db_content[k]],
                      key)

(* __save_model deriving the key from the model even when db_key is given *)
save_model_rekeyed(db, db_content, model, db_key) ==
    LET key == parse_key_provider(db.key_provider, model)
        values == [i \in 1..Len(db.columns) |->
                      column_content(db, db.columns[i], model[db.columns[i].name])]
        stops == {i \in 1..Len(db.columns) : values[i].t \in {"raise", "return"}}
        first == CHOOSE i \in stops : \A j \in stops : i <= j
        content == [name \in FieldNames(db) |->
                       values[CHOOSE i \in 1..Len(db.columns) :
                                  db.columns[i].name = name]]
    IN  IF IsRaise(key) THEN Raised(db_content, key.s[1])
        ELSE IF stops # {}
             THEN IF IsRaise(values[first])
                  THEN Raised(db_content, values[first].s[1])
                  ELSE Returned(db_content, None)
        ELSE IF IsRaise(JsonKey(key)) THEN Raised(db_content, "TypeError")
        ELSE Returned([k \in DOMAIN db_content \cup {JsonKey(key).s} |->
                          IF k = JsonKey(key).s THEN content ELSE db_content[k]],
                      key)

(* Database.__save_model: db_key is None for an insert *)
save_model(db, db_content, model, db_key) ==
    LET key == IF db_key = None THEN parse_key_provider(db.key_provider, model)
               ELSE db_key
        values == [i \in 1..Len(db.columns) |->
                      column_content(db, db.columns[i], model[db.columns[i].name])]
        stops == {i \in 1..Len(db.columns) : values[i].t \in {"raise", "return"}}
        first == CHOOSE i \in stops : \A j \in stops : i <= j
        content == [name \in FieldNames(db) |->
                       values[CHOOSE i \in 1..Len(db.columns) :
                                  db.columns[i].name = name]]
    IN  IF IsRaise(key) THEN Raised(db_content, key.s[1])
        ELSE IF stops # {}
             THEN IF IsRaise(values[first])
                  THEN Raised(db_content, values[first].s[1])
                  ELSE Returned(db_content, None)
        ELSE IF IsRaise(JsonKey(key)) THEN Raised(db_content, "TypeError")
        ELSE Returned([k \in DOMAIN db_content \cup {JsonKey(key).s} |->
                          IF k = JsonKey(key).s THEN content ELSE db_content[k]],
                      key)

(* db_content.get(key) finds a key of the loaded file, which are all str *)
HasKey(db_content, key) == key.t = "str" /\ key.s \in DOMAIN db_content

(* an insert that keeps the document stored under the key it derives *)
insert_if_absent(db, db_content, data) ==
    IF /\ db.key_provider # KEY_AS_UUID4
       /\ HasKey(db_content, parse_key_provider(db.key_provider, data))
    THEN Returned(db_content, parse_key_provider(db.key_provider, data))
    ELSE save_model(db, db_content, data, None)

(* Database.insert *)
insert(db, db_content, data) ==
    save_model(db, db_content, data, None)

(* Database.get: ret is the model object, tagged with _key *)
get(db, db_content, key) ==
    IF ~HasKey(db_content, key)
    THEN [file |-> db_content, exc |-> "KeyNotFound", ret |-> None,
          model |-> <<>>]
    ELSE [file |-> db_content, exc |-> "", ret |-> None,
          model |-> [name \in FieldNames(db) \cup {"_key"} |->
                        IF name = "_key" THEN key ELSE db_content[key.s][name]]]

(* apply_change giving up the whole update at a name the model object     *)
(* lacks                                                                   *)
apply_change_unknown_stops(model_object, change, iter_append, iter_pop) ==
    LET key_name == change.f
        current_data == model_object[key_name]
        appended ==
            IF iter_append /\ IsIterable(change.v) /\ current_data.t = "list"
            THEN List(current_data.l \o <<change.v>>)
            ELSE change.v
        pops == iter_pop /\ IsIterable(appended) /\ current_data.t = "list"
    IN  IF key_name \notin DOMAIN model_object THEN <<>>
        ELSE IF pops /\ ~PyIn(appended, current_data.l) THEN <<>>
        ELSE [model_object EXCEPT ![key_name] =
                 IF pops THEN List(PyRemove(current_data.l, appended))
                 ELSE appended]

(* one change of the loop of Database.update applied to model_object: the  *)
(* object after setattr, or <<>> when update returns at a failed iter_pop  *)
apply_change(model_object, change, iter_append, iter_pop) ==
    LET key_name == change.f
        current_data == model_object[key_name]
        appended ==
            IF iter_append /\ IsIterable(change.v) /\ current_data.t = "list"
            THEN List(current_data.l \o <<change.v>>)
            ELSE change.v
        pops == iter_pop /\ IsIterable(appended) /\ current_data.t = "list"
    IN  IF key_name \notin DOMAIN model_object THEN model_object
        ELSE IF pops /\ ~PyIn(appended, current_data.l) THEN <<>>
        ELSE [model_object EXCEPT ![key_name] =
                 IF pops THEN List(PyRemove(current_data.l, appended))
                 ELSE appended]

RECURSIVE apply_changes(_, _, _, _)
apply_changes(model_object, changes, iter_append, iter_pop) ==
    IF changes = <<>> \/ model_object = <<>> THEN model_object
    ELSE apply_changes(apply_change(model_object, Head(changes), iter_append, iter_pop),
                       Tail(changes), iter_append, iter_pop)

(* update without the check of the two flags *)
update_flags_unchecked(db, db_content, key, changes, iter_append, iter_pop) ==
    IF get(db, db_content, key).exc # "" THEN Raised(db_content, "KeyNotFound")
    ELSE LET model_object ==
                 apply_changes(get(db, db_content, key).model, changes,
                               iter_append, iter_pop)
             saved == save_model(db, db_content, model_object, key)
         IN  IF model_object = <<>> THEN Returned(db_content, None)
             ELSE IF saved.exc # "" THEN saved
             ELSE Returned(saved.file, None)

(* update swallowing the KeyNotFound of get *)
update_absent_ignored(db, db_content, key, changes, iter_append, iter_pop) ==
    IF iter_append /\ iter_pop THEN Returned(db_content, None)
    ELSE IF get(db, db_content, key).exc # "" THEN Returned(db_content, None)
    ELSE LET model_object ==
                 apply_changes(get(db, db_content, key).model, changes,
                               iter_append, iter_pop)
             saved == save_model(db, db_content, model_object, key)
         IN  IF model_object = <<>> THEN Returned(db_content, None)
             ELSE IF saved.exc # "" THEN saved
             ELSE Returned(saved.file, None)

(* the end of Database.update: the model object is saved, unless the loop  *)
(* over the changes returned; update returns None                         *)
save_changed(db, db_content, model_object, key) ==
    IF model_object = <<>> THEN Returned(db_content, None)
    ELSE [save_model(db, db_content, model_object, key) EXCEPT !.ret = None]

(* Database.update: changes is the dict as the sequence of its items *)
update(db, db_content, key, changes, iter_append, iter_pop) ==
    IF iter_append /\ iter_pop THEN Returned(db_content, None)
    ELSE IF get(db, db_content, key).exc # "" THEN Raised(db_content, "KeyNotFound")
    ELSE save_changed(db, db_content,
                      apply_changes(get(db, db_content, key).model, changes,
                                    iter_append, iter_pop),
                      key)

(* delete popping the key from the loaded content without saving it *)
delete_unsaved(db, db_content, key) ==
    IF ~HasKey(db_content, key) THEN Raised(db_content, "KeyNotFound")
    ELSE Returned(db_content, None)

(* Database.delete *)
delete(db, db_content, key) ==
    IF ~HasKey(db_content, key) THEN Raised(db_content, "KeyNotFound")
    ELSE Returned([k \in DOMAIN db_content \ {key.s} |-> db_content[k]], None)

(* Database.get_all_models: the model objects, tagged with _key; the order *)
(* of the list is left out                                                 *)
get_all_models(db, db_content) ==
    [file |-> db_content, exc |-> "", ret |-> None,
     all |-> { [name \in FieldNames(db) \cup {"_key"} |->
                  IF name = "_key" THEN Str(k) ELSE db_content[k][name]] :
               k \in DOMAIN db_content }]

(* get_all_keys answering from the content the call before it loaded *)
get_all_keys_cached(db, db_content) ==
    [file |-> db_content, exc |-> "", ret |-> None,
     all |-> {Str(k) : k \in DOMAIN prev}]

(* Database.get_all_keys: the keys of the file; the order of the list is   *)
(* left out                                                                *)
get_all_keys(db, db_content) ==
    [file |-> db_content, exc |-> "", ret |-> None,
     all |-> {Str(k) : k \in DOMAIN db_content}]

-----------------------------------------------------------------------------
(* The callers' inputs *)

MaxCalls == 2

ScenarioCalls == 6

lobby == <<"l", "o", "b", "b", "y">>

hall == <<"h", "a", "l", "l">>

alice == <<"a", "l", "i", "c", "e">>

bob == <<"b", "o", "b">>

(* the dataclass constructor: a keyword argument, else the class attribute *)
new_model(model, kwargs) ==
    [name \in {model.fields[i].name : i \in 1..Len(model.fields)} |->
        IF name \in DOMAIN kwargs THEN kwargs[name]
        ELSE LET field == model.fields[CHOOSE i \in 1..Len(model.fields) :
                                           model.fields[i].name = name]
             IN  field.attr]

Change(f, v) == [f |-> f, v |-> v]

UpdateCall(key, changes, iter_append, iter_pop) ==
    [key |-> key, changes |-> changes,
     iter_append |-> iter_append, iter_pop |-> iter_pop]

(* RoomModel(name=..., admin=..., date_created=..., last_interaction=...)  *)
(* with more keyword arguments                                             *)
Room(name, more) ==
    new_model(RoomModel,
              [f \in {"name", "admin", "date_created", "last_interaction"}
                     \cup DOMAIN more |->
                  IF f \in DOMAIN more THEN more[f]
                  ELSE IF f = "name" THEN name
                  ELSE IF f = "admin" THEN Str(alice)
                  ELSE IntV(1)])

NoMore == [f \in {} |-> None]

One(f, v) == [g \in {f} |-> v]

LobbyOnly == Room(Str(lobby), NoMore)

LobbyFull ==
    Room(Str(lobby),
         [f \in {"max_users", "members"} |->
             IF f = "max_users" THEN IntV(3)
             ELSE List(<<Str(alice), Str(bob), Str(alice)>>)])

HallOnly == Room(Str(hall), NoMore)

RoomDocs ==
    { LobbyOnly, LobbyFull, HallOnly,
      Room(Str(hall), One("members", List(<<Str(bob)>>))),
      Room(Str(lobby), One("members", None)),
      Room(Str(lobby), One("members", IntV(1))),
      Room(Str(lobby), One("members", List(<<IntV(1), Str(alice)>>))),
      Room(Str(lobby), One("max_users", Str(<<"7">>))),
      Room(Str(lobby), One("max_users", Str(<<"x">>))),
      Room(Str(lobby), One("max_users", None)),
      Room(Str(lobby), One("max_users", Bool(TRUE))),
      Room(Str(lobby), One("password", None)),
      Room(Str(lobby), One("date_created", None)),
      Room(None, NoMore),
      Room(NOT_REQUIRED, NoMore) }

KLobby == Str(Sha1Hex(lobby))

KHall == Str(Sha1Hex(hall))

RoomUpdates ==
    { UpdateCall(KLobby, <<c>>, FALSE, FALSE) :
        c \in { Change("members", List(<<Str(bob), Str(alice), Str(bob)>>)),
                Change("members", Str(alice)),
                Change("members", None),
                Change("members", IntV(1)),
                Change("max_users", IntV(2)),
                Change("max_users", Str(<<"x">>)),
                Change("name", Str(hall)),
                Change("date_created", None),
                Change("_key", Str(alice)),
                Change("nope", Str(alice)) } }
    \cup
    { UpdateCall(KLobby, <<c>>, TRUE, FALSE) :
        c \in { Change("members", Str(alice)),
                Change("members", Str(bob)),
                Change("members", List(<<Str(alice)>>)),
                Change("members", None),
                Change("members", IntV(1)),
                Change("password", Str(bob)) } }
    \cup
    { UpdateCall(KLobby, <<c>>, FALSE, TRUE) :
        c \in { Change("members", Str(alice)),
                Change("members", Str(bob)),
                Change("members", List(<<Str(alice)>>)),
                Change("members", IntV(1)),
                Change("password", Str(bob)) } }
    \cup
    { UpdateCall(KLobby, <<Change("nope", Str(alice)), Change("max_users", IntV(2))>>,
                 FALSE, FALSE),
      UpdateCall(KLobby, <<Change("max_users", IntV(2)), Change("members", Str(bob))>>,
                 TRUE, FALSE),
      UpdateCall(KLobby, <<Change("max_users", IntV(2)), Change("members", Str(bob))>>,
                 FALSE, TRUE),
      UpdateCall(KLobby, <<Change("members", Str(alice)), Change("password", Str(bob))>>,
                 FALSE, TRUE),
      UpdateCall(KLobby, <<Change("members", Str(alice))>>, TRUE, TRUE) }
    \cup
    { UpdateCall(KHall, <<Change("members", Str(bob))>>, a, p) :
        a \in BOOLEAN, p \in BOOLEAN }

RoomKeys == {KLobby, KHall}

(* SessionModel(user_key=..., session_id=..., date_created=...) *)
Session(user_key, more) ==
    new_model(SessionModel,
              [f \in {"user_key", "session_id", "date_created"} \cup DOMAIN more |->
                  IF f \in DOMAIN more THEN more[f]
                  ELSE IF f = "user_key" THEN user_key
                  ELSE IF f = "session_id" THEN Str(<<"s", "1">>)
                  ELSE IntV(1)])

SessionDocs ==
    { Session(Str(alice), NoMore),
      Session(Str(bob), One("date_renewed", IntV(2))),
      Session(Str(bob), One("date_renewed", Str(<<"-", "1", "2">>))),
      Session(IntV(5), NoMore),
      Session(None, NoMore) }

SessionUpdates ==
    { UpdateCall(Str(alice), <<Change("date_renewed", IntV(3))>>, FALSE, FALSE),
      UpdateCall(Str(alice), <<Change("session_id", Str(<<"s", "2">>))>>, TRUE, FALSE),
      UpdateCall(Str(alice), <<Change("session_id", Str(<<"s", "2">>))>>, FALSE, TRUE),
      UpdateCall(Str(bob), <<Change("date_renewed", IntV(3))>>, TRUE, TRUE),
      UpdateCall(IntV(5), <<Change("date_renewed", IntV(3))>>, FALSE, FALSE) }

SessionKeys == {Str(alice), Str(bob), IntV(5)}

x == <<"x">>

xx == <<"x", "x">>

(* FriendRequestsModel(author=..., target=..., date_sent=...) *)
FriendRequest(author, target, date_sent) ==
    new_model(FriendRequestsModel,
              [f \in {"author", "target", "date_sent"} |->
                  IF f = "author" THEN author
                  ELSE IF f = "target" THEN target
                  ELSE date_sent])

FriendRequestDocs ==
    { FriendRequest(Str(alice), Str(bob), IntV(1)),
      FriendRequest(Str(alice), Str(bob), IntV(2)),
      FriendRequest(Str(bob), Str(alice), IntV(1)),
      FriendRequest(Str(x), Str(xx), IntV(1)),
      FriendRequest(Str(xx), Str(x), IntV(1)),
      FriendRequest(Str(alice), IntV(5), IntV(1)),
      FriendRequest(Str(alice), Str(bob), None) }

KAliceBob == Str(Sha1Hex(alice \o bob))

KBobAlice == Str(Sha1Hex(bob \o alice))

FriendRequestUpdates ==
    { UpdateCall(KAliceBob, <<Change("date_sent", IntV(3))>>, FALSE, FALSE),
      UpdateCall(KAliceBob, <<Change("date_sent", Str(x))>>, FALSE, FALSE) }

FriendRequestKeys == {KAliceBob, KBobAlice}

(* the hex strings uuid.uuid4() may produce *)
Uuids == {<<"a", "1">>, <<"b", "2">>, <<"c", "3">>}

(* a hex string drawn in an earlier run of the process *)
DrawnBefore == <<"d", "0">>

(* TicketModel(owner=...) with more keyword arguments *)
Ticket(owner, more) ==
    new_model(TicketModel,
              [f \in {"owner"} \cup DOMAIN more |->
                  IF f \in DOMAIN more THEN more[f] ELSE owner])

TicketDocs ==
    { Ticket(Str(alice), NoMore),
      Ticket(Str(bob), One("uses", IntV(2))),
      Ticket(Str(bob), One("uses", Str(x))),
      Ticket(None, NoMore) }

TicketUpdates ==
    { UpdateCall(Str(<<"a", "1">>), <<Change("uses", IntV(1))>>, FALSE, FALSE),
      UpdateCall(Str(DrawnBefore), <<Change("owner", None)>>, FALSE, FALSE) }

TicketKeys == {Str(<<"a", "1">>), Str(<<"b", "2">>), Str(DrawnBefore)}

Tables == {"rooms", "sessions", "friend_requests", "tickets"}

Docs(name) ==
    CASE name = "rooms" -> RoomDocs
      [] name = "sessions" -> SessionDocs
      [] name = "friend_requests" -> FriendRequestDocs
      [] name = "tickets" -> TicketDocs

Updates(name) ==
    CASE name = "rooms" -> RoomUpdates
      [] name = "sessions" -> SessionUpdates
      [] name = "friend_requests" -> FriendRequestUpdates
      [] name = "tickets" -> TicketUpdates

Keys(name) ==
    CASE name = "rooms" -> RoomKeys
      [] name = "sessions" -> SessionKeys
      [] name = "friend_requests" -> FriendRequestKeys
      [] name = "tickets" -> TicketKeys

EmptyFile == [k \in {} |-> <<>>]

(* the table files an earlier run of the process left behind: the file is  *)
(* created empty (__ensure_db_file) and every later content is the work of *)
(* the handle                                                              *)
InsertAll(db, docs) ==
    LET RECURSIVE F(_)
        F(i) == IF i = 0 THEN EmptyFile ELSE insert(db, F(i - 1), docs[i]).file
    IN  F(Len(docs))

Files(name) ==
    CASE name = "rooms" ->
           { InsertAll(get_database(name), docs) :
               docs \in {<<>>, <<LobbyOnly>>, <<LobbyFull>>, <<LobbyFull, HallOnly>>} }
      [] name = "sessions" ->
           { InsertAll(get_database(name), docs) :
               docs \in {<<>>, <<Session(Str(alice), NoMore)>>} }
      [] name = "friend_requests" ->
           { InsertAll(get_database(name), docs) :
               docs \in {<<>>, <<FriendRequest(Str(alice), Str(bob), IntV(1))>>} }
      [] name = "tickets" ->
           { EmptyFile,
             save_model(get_database(name), EmptyFile, Ticket(Str(alice), NoMore),
                        Str(DrawnBefore)).file }

(* the strings uuid4 is going to produce, in the order of the draws; they  *)
(* matter to a table with the random key rule only                         *)
Streams(name) ==
    IF get_database(name).key_provider = KEY_AS_UUID4
    THEN { stream \in [1..Cardinality(Uuids) -> Uuids] :
             \A i, j \in DOMAIN stream : stream[i] = stream[j] => i = j }
    ELSE { <<CHOOSE u \in Uuids : TRUE>> }

-----------------------------------------------------------------------------
(* The calls on the handle *)

db == get_database(table)

Call(op, key, data, upd, outcome) ==
    [op |-> op, key |-> key, data |-> data,
     changes |-> upd.changes, iter_append |-> upd.iter_append,
     iter_pop |-> upd.iter_pop,
     exc |-> outcome.exc, ret |-> outcome.ret,
     model |-> IF op = "get" THEN outcome.model ELSE <<>>,
     all |-> IF op \in {"get_all_keys", "get_all_models"} THEN outcome.all
             ELSE {}]

NoUpdate == UpdateCall(None, <<>>, FALSE, FALSE)

Done(call, outcome) ==
    /\ file' = outcome.file
    /\ prev' = file
    /\ trace' = Append(trace, call)
    /\ uuid' = IF call.op = "insert" /\ db.key_provider = KEY_AS_UUID4
               THEN Tail(uuid) ELSE uuid
    /\ UNCHANGED <<table, exists, garbage, dump, register, handles, threads>>
    /\ UNCHANGED appvars

(* self.__get_db_content() as the first statement of a read: the           *)
(* JSONDecodeError of a file that is no JSON leaves the method             *)
Loaded(outcome) ==
    IF garbage # <<>>
    THEN [file |-> file, exc |-> "JSONDecodeError", ret |-> None,
          model |-> <<>>, all |-> {}]
    ELSE outcome

Insert(data, bound) ==
    /\ Len(trace) < bound
    /\ db.key_provider = KEY_AS_UUID4 => uuid # <<>>
    /\ LET outcome == insert(db, file, data)
       IN  Done(Call("insert", None, data, NoUpdate, outcome), outcome)

Update(upd, bound) ==
    /\ Len(trace) < bound
    /\ LET outcome == update(db, file, upd.key, upd.changes,
                             upd.iter_append, upd.iter_pop)
       IN  Done(Call("update", upd.key, <<>>, upd, outcome), outcome)

Delete(key, bound) ==
    /\ Len(trace) < bound
    /\ LET outcome == delete(db, file, key)
       IN  Done(Call("delete", key, <<>>, NoUpdate, outcome), outcome)

Get(key, bound) ==
    /\ Len(trace) < bound
    /\ LET outcome == Loaded(get(db, file, key))
       IN  Done(Call("get", key, <<>>, NoUpdate, outcome), outcome)

GetAllKeys(bound) ==
    /\ Len(trace) < bound
    /\ LET outcome == Loaded(get_all_keys(db, file))
       IN  Done(Call("get_all_keys", None, <<>>, NoUpdate, outcome), outcome)

GetAllModels(bound) ==
    /\ Len(trace) < bound
    /\ LET outcome == Loaded(get_all_models(db, file))
       IN  Done(Call("get_all_models", None, <<>>, NoUpdate, outcome), outcome)

(* a Database object: id tells the objects apart (the ordinal of the       *)
(* construction that made it), self holds its attributes                   *)
Object(id, self) == [id |-> id, self |-> self]

(* no request was served: the application's tables, the clock, the stacks  *)
(* of direct messages and the requests play no part in the calls on one    *)
(* handle                                                                  *)
Idle ==
    /\ dbs = <<>>
    /\ now = 0
    /\ stacks = <<>>
    /\ reqs = <<>>

(* the handle of the table as the import of database.py leaves it, its     *)
(* file parsing and no writer at work                                      *)
Imported ==
    /\ exists = TRUE
    /\ garbage = <<>>
    /\ dump = <<>>
    /\ handles = <<Object(1, db)>>
    /\ register = [name \in {table} |-> Object(1, db)]
    /\ threads = <<>>
    /\ Idle

Init ==
    /\ table \in Tables
    /\ uuid \in Streams(table)
    /\ file \in Files(table)
    /\ prev = file
    /\ trace = <<>>
    /\ Imported

Next ==
    \/ \E data \in Docs(table) : Insert(data, MaxCalls)
    \/ \E upd \in Updates(table) : Update(upd, MaxCalls)
    \/ \E key \in Keys(table) : Delete(key, MaxCalls)
    \/ \E key \in Keys(table) : Get(key, MaxCalls)

Spec == Init /\ [][Next]_vars

(* the concrete scenario of the store's testable properties, run on an     *)
(* empty rooms table                                                       *)
ScenarioDocs == {LobbyOnly, HallOnly}

ScenarioUpdates ==
    { UpdateCall(KLobby, <<Change("members", Str(alice))>>, TRUE, FALSE),
      UpdateCall(KLobby, <<Change("members", Str(bob))>>, FALSE, TRUE),
      UpdateCall(KLobby, <<Change("members", Str(alice))>>, FALSE, TRUE) }

InitScenario ==
    /\ table = "rooms"
    /\ uuid \in Streams(table)
    /\ file = EmptyFile
    /\ prev = file
    /\ trace = <<>>
    /\ Imported

NextScenario ==
    \/ \E data \in ScenarioDocs : Insert(data, ScenarioCalls)
    \/ \E upd \in ScenarioUpdates : Update(upd, ScenarioCalls)
    \/ Delete(KLobby, ScenarioCalls)
    \/ Get(KLobby, ScenarioCalls)

SpecScenario == InitScenario /\ [][NextScenario]_vars

(* the header of a dump: "\n\n--- DUMP: {timestamp} ---\n" *)
DumpHeader == <<"--- DUMP ---">>

(* Path.write on the .dump file: the text is added at the end of the file *)
dump_write(text, dumpfile_content) == text \o dumpfile_content

(* Database.__ensure_db_file on the files as they are: the files it leaves *)
(* and the exception that leaves it                                        *)
ensure_db_file(self) ==
    IF ~exists
    THEN [exists |-> TRUE, file |-> EmptyFile, garbage |-> <<>>, dump |-> dump,
          exc |-> ""]
    ELSE IF garbage = <<>>
    THEN [exists |-> TRUE, file |-> file, garbage |-> <<>>, dump |-> dump,
          exc |-> ""]
    ELSE IF ~self.dump_on_error
    THEN [exists |-> TRUE, file |-> file, garbage |-> garbage, dump |-> dump,
          exc |-> "JSONDecodeError"]
    ELSE [exists |-> TRUE, file |-> EmptyFile, garbage |-> <<>>,
          dump |-> dump_write(dump, DumpHeader \o garbage), exc |-> ""]

LifeCalls == 4

(* Database(model) for the model of the table: Database.__init__ *)
Construct(bound) ==
    /\ Len(trace) < bound
    /\ LET model == CHOOSE m \in Models \cup {TicketModel} : m.name = table
           self == Object(Len(handles) + 1, Database(model))
           ensured == ensure_db_file(self.self)
           call(exc) == [Call("construct", None, <<>>, NoUpdate,
                              [exc |-> exc, ret |-> None]) EXCEPT !.data = model]
       IN  IF model.name \in DOMAIN register
           THEN /\ handles' = Append(handles, [self EXCEPT !.self.columns = <<>>])
                /\ trace' = Append(trace, call(""))
                /\ prev' = file
                /\ UNCHANGED <<table, file, uuid, exists, garbage, dump, register,
                               threads>>
                /\ UNCHANGED appvars
           ELSE /\ exists' = ensured.exists
                /\ file' = ensured.file
                /\ garbage' = ensured.garbage
                /\ dump' = ensured.dump
                /\ prev' = file
                /\ trace' = Append(trace, call(ensured.exc))
                /\ IF ensured.exc # "" THEN UNCHANGED <<register, handles>>
                   ELSE /\ register' = [name \in DOMAIN register \cup {model.name} |->
                                           IF name = model.name THEN self
                                           ELSE register[name]]
                        /\ handles' = Append(handles, self)
                /\ UNCHANGED <<table, uuid, threads>>
                /\ UNCHANGED appvars

(* the text something else than the store leaves in the table's file *)
Junk == {<<"{", "\"">>, <<"x">>}

(* the file of the table is overwritten with text that is no JSON *)
Corrupt(text, bound) ==
    /\ Len(trace) < bound
    /\ exists /\ garbage = <<>>
    /\ garbage' = text
    /\ file' = EmptyFile
    /\ prev' = file
    /\ trace' = Append(trace, [Call("corrupt", None, <<>>, NoUpdate,
                                    [exc |-> "", ret |-> None]) EXCEPT !.data = text])
    /\ UNCHANGED <<table, uuid, exists, dump, register, handles, threads>>
    /\ UNCHANGED appvars

LifeTables == {"rooms", "tickets"}

(* before database.py is imported: the register is empty, the file of the  *)
(* table is missing, or as an earlier run left it, or no JSON              *)
InitLife ==
    /\ table \in LifeTables
    /\ uuid = <<>>
    /\ exists \in BOOLEAN
    /\ garbage \in IF exists THEN {<<>>} \cup Junk ELSE {<<>>}
    /\ file \in IF exists /\ garbage = <<>> THEN Files(table) ELSE {EmptyFile}
    /\ dump = <<>>
    /\ prev = file
    /\ trace = <<>>
    /\ register = <<>>
    /\ handles = <<>>
    /\ threads = <<>>
    /\ Idle

NextLife ==
    \/ Construct(LifeCalls)
    \/ \E text \in Junk : Corrupt(text, LifeCalls)
    \/ \E key \in Keys(table) : table \in DOMAIN register /\ Get(key, LifeCalls)
    \/ table \in DOMAIN register /\ GetAllKeys(LifeCalls)
    \/ table \in DOMAIN register /\ GetAllModels(LifeCalls)

SpecLife == InitLife /\ [][NextLife]_vars

(* two writers on the rooms table, a request handler and the revision      *)
(* thread; a write is a load of the file and a store of the file, and the  *)
(* steps of the two writers come in any order                              *)
Writers == {1, 2}

carol == <<"c", "a", "r", "o", "l">>

dave == <<"d", "a", "v", "e">>

RaceCall(op, upd) == [op |-> op, upd |-> upd]

(* Room.add_member_key, Room.set_lock_state, Room.remove_member_key and    *)
(* Room.remove_room, as a request handler (1) and the revision thread or   *)
(* another handler (2) call them                                           *)
RaceCalls(w) ==
    IF w = 1
    THEN { RaceCall("update",
                    UpdateCall(KLobby, <<Change("members", Str(carol))>>, TRUE, FALSE)),
           RaceCall("update",
                    UpdateCall(KHall, <<Change("is_locked", Bool(TRUE))>>, FALSE, FALSE)) }
    ELSE { RaceCall("update",
                    UpdateCall(KLobby, <<Change("members", Str(dave))>>, TRUE, FALSE)),
           RaceCall("update",
                    UpdateCall(KLobby, <<Change("members", Str(bob))>>, FALSE, TRUE)),
           RaceCall("delete", UpdateCall(KLobby, <<>>, FALSE, FALSE)) }

RaceFile == InsertAll(get_database("rooms"), <<LobbyFull, HallOnly>>)

(* a writer: the call it makes, the statement it is at, and its locals *)
Writer(call) ==
    [call |-> call, pc |-> IF call.op = "update" THEN "get" ELSE "load",
     model_object |-> <<>>, db_content |-> EmptyFile, exc |-> ""]

Step(w, self, step) ==
    /\ threads' = [threads EXCEPT ![w] = self]
    /\ trace' = Append(trace, [w |-> w, step |-> step])
    /\ prev' = file
    /\ UNCHANGED <<table, uuid, exists, garbage, dump, register, handles>>
    /\ UNCHANGED appvars

(* update up to its call of __save_model: get loads the file, the changes  *)
(* are applied to the model object                                         *)
RaceGet(w) ==
    LET self == threads[w]
        upd == self.call.upd
        got == get(db, file, upd.key)
        model_object == apply_changes(got.model, upd.changes, upd.iter_append,
                                      upd.iter_pop)
    IN  /\ self.pc = "get"
        /\ UNCHANGED file
        /\ Step(w, IF got.exc # "" THEN [self EXCEPT !.pc = "done", !.exc = got.exc]
                   ELSE IF model_object = <<>> THEN [self EXCEPT !.pc = "done"]
                   ELSE [self EXCEPT !.pc = "load", !.model_object = model_object],
                "get")

(* db_content = self.__get_db_content() of __save_model, after the columns *)
(* are prepared, and of delete                                             *)
RaceLoad(w) ==
    LET self == threads[w]
        exc == IF self.call.op = "delete"
               THEN delete(db, file, self.call.upd.key).exc
               ELSE save_model(db, file, self.model_object, self.call.upd.key).exc
    IN  /\ self.pc = "load"
        /\ UNCHANGED file
        /\ Step(w, IF exc # "" THEN [self EXCEPT !.pc = "done", !.exc = exc]
                   ELSE [self EXCEPT !.pc = "store", !.db_content = file],
                "load")

(* the store writing the content of the file as it is at the store, not    *)
(* the content the writer loaded                                           *)
stored_reloaded(self) ==
    IF self.call.op = "delete"
    THEN delete(db, file, self.call.upd.key).file
    ELSE save_model(db, file, self.model_object, self.call.upd.key).file

(* the content save_json_content writes: the content the writer loaded,    *)
(* with its document set or its key popped                                 *)
stored(self) ==
    IF self.call.op = "delete"
    THEN delete(db, self.db_content, self.call.upd.key).file
    ELSE save_model(db, self.db_content, self.model_object, self.call.upd.key).file

(* self.filepath.save_json_content(db_content) *)
RaceStore(w) ==
    LET self == threads[w]
    IN  /\ self.pc = "store"
        /\ file' = stored(self)
        /\ Step(w, [self EXCEPT !.pc = "done"], "store")

InitRace ==
    /\ table = "rooms"
    /\ uuid \in Streams(table)
    /\ file = RaceFile
    /\ prev = file
    /\ trace = <<>>
    /\ exists = TRUE
    /\ garbage = <<>>
    /\ dump = <<>>
    /\ handles = <<Object(1, db)>>
    /\ register = [name \in {table} |-> Object(1, db)]
    /\ threads \in {[w \in Writers |-> Writer(calls[w])] :
                       calls \in [Writers -> UNION {RaceCalls(w) : w \in Writers}]}
    /\ \A w \in Writers : threads[w].call \in RaceCalls(w)
    /\ Idle

NextRace ==
    \E w \in Writers :
        \/ RaceGet(w)
        \/ RaceLoad(w)
        \/ RaceStore(w)

SpecRace == InitRace /\ [][NextRace]_vars

(* a table created empty, then read with get_all_keys between the writes *)
KeysCalls == 4

KeysDocs(name) ==
    CASE name = "rooms" ->
           {LobbyOnly, HallOnly, Room(Str(lobby), One("date_created", None))}
      [] name = "sessions" ->
           {Session(Str(alice), NoMore), Session(IntV(5), NoMore)}
      [] name = "friend_requests" ->
           { FriendRequest(Str(alice), Str(bob), IntV(1)),
             FriendRequest(Str(bob), Str(alice), IntV(1)) }
      [] name = "tickets" ->
           {Ticket(Str(alice), NoMore), Ticket(None, NoMore)}

KeysUpdates(name) ==
    CASE name = "rooms" ->
           {UpdateCall(KLobby, <<Change("name", Str(hall))>>, FALSE, FALSE)}
      [] name = "sessions" ->
           {UpdateCall(Str(alice), <<Change("user_key", Str(bob))>>, FALSE, FALSE)}
      [] name = "friend_requests" ->
           {UpdateCall(KAliceBob, <<Change("date_sent", IntV(3))>>, FALSE, FALSE)}
      [] name = "tickets" ->
           {UpdateCall(Str(<<"a", "1">>), <<Change("uses", IntV(1))>>, FALSE, FALSE)}

KeysDeleted(name) ==
    CASE name = "rooms" -> {KLobby, KHall}
      [] name = "sessions" -> {Str(alice), IntV(5)}
      [] name = "friend_requests" -> {KAliceBob, KBobAlice}
      [] name = "tickets" -> {Str(<<"a", "1">>), Str(<<"b", "2">>)}

InitKeys ==
    /\ table \in Tables
    /\ uuid \in Streams(table)
    /\ file = EmptyFile
    /\ prev = file
    /\ trace = <<>>
    /\ Imported

NextKeys ==
    \/ \E data \in KeysDocs(table) : Insert(data, KeysCalls)
    \/ \E upd \in KeysUpdates(table) : Update(upd, KeysCalls)
    \/ \E key \in KeysDeleted(table) : Delete(key, KeysCalls)
    \/ GetAllKeys(KeysCalls)

SpecKeys == InitKeys /\ [][NextKeys]_vars

-----------------------------------------------------------------------------
(* Properties *)

Called == Len(trace) > 0

Last == trace[Len(trace)]

Fields == FieldNames(db)

(* the latest two calls, when there are two *)
Before == trace[Len(trace) - 1]

UpdatedOne(iter_append, iter_pop) ==
    /\ Called /\ Last.op = "update"
    /\ Last.iter_append = iter_append /\ Last.iter_pop = iter_pop
    /\ Len(Last.changes) = 1
    /\ HasKey(prev, Last.key)
    /\ Last.changes[1].f \in Fields

(* C2: update(key, {f: x}, iter_append=True) on a document whose field f   *)
(* is a list L stores L followed by x, for every x, and keeps the other    *)
(* fields.                                                                 *)
C2_AppendAnyValue ==
    (UpdatedOne(TRUE, FALSE) /\ prev[Last.key.s][Last.changes[1].f].t = "list")
      => LET f == Last.changes[1].f
             k == Last.key.s
         IN  /\ k \in DOMAIN file
             /\ file[k][f] = List(prev[k][f].l \o <<Last.changes[1].v>>)
             /\ \A g \in Fields \ {f} : file[k][g] = prev[k][g]

(* C3: update(key, changes, iter_pop=True) that meets a list field without *)
(* the value to pop leaves the table unchanged and lets the caller tell    *)
(* the outcome from a successful update (which returns None).              *)
PopMisses ==
    /\ Called /\ Last.op = "update" /\ ~Last.iter_append /\ Last.iter_pop
    /\ HasKey(prev, Last.key)
    /\ \E i \in 1..Len(Last.changes) :
          /\ Last.changes[i].f \in Fields
          /\ prev[Last.key.s][Last.changes[i].f].t = "list"
          /\ ~PyIn(Last.changes[i].v, prev[Last.key.s][Last.changes[i].f].l)

C3_PopMissReported ==
    PopMisses => /\ file = prev
                 /\ (Last.exc # "" \/ Last.ret # None)

(* C4: update with iter_append and iter_pop both set leaves the table file *)
(* unchanged, whatever the key and the changes.                            *)
C4_BothFlagsNoChange ==
    (Called /\ Last.op = "update" /\ Last.iter_append /\ Last.iter_pop)
      => file = prev

(* C4 witness: both flags on a stored document whose named field holds no  *)
(* list                                                                    *)
C4_Witness ==
    /\ Called /\ Last.op = "update" /\ Last.iter_append /\ Last.iter_pop
    /\ HasKey(prev, Last.key)
    /\ prev[Last.key.s][Last.changes[1].f].t # "list"

(* C5: delete(k) of a stored key removes exactly k, and a get(k) that      *)
(* follows raises KeyNotFound; delete(k) of a key not stored raises        *)
(* KeyNotFound and leaves the file unchanged.                              *)
C5_Delete ==
    /\ (Called /\ Last.op = "delete")
         => IF HasKey(prev, Last.key)
            THEN /\ Last.exc = ""
                 /\ DOMAIN file = DOMAIN prev \ {Last.key.s}
                 /\ \A k \in DOMAIN file : file[k] = prev[k]
                 /\ get(db, file, Last.key).exc = "KeyNotFound"
            ELSE /\ Last.exc = "KeyNotFound"
                 /\ file = prev
    /\ (Len(trace) >= 2 /\ Before.op = "delete" /\ Before.exc = ""
          /\ Last.op = "get" /\ Last.key = Before.key)
         => Last.exc = "KeyNotFound"

(* C5 witness: a get of the key a delete has just removed from a table     *)
(* that keeps another document                                             *)
C5_Witness ==
    /\ Len(trace) >= 2 /\ Before.op = "delete" /\ Before.exc = ""
    /\ Last.op = "get" /\ Last.key = Before.key
    /\ Last.exc = "KeyNotFound"
    /\ DOMAIN file # {}

C7_SchemaShape == \A k \in DOMAIN file : DOMAIN file[k] = Fields

(* C7 witness: a document stored by an update whose changes name something *)
(* that is no field of the schema                                          *)
C7_Witness ==
    /\ Called /\ Last.op = "update" /\ Last.exc = ""
    /\ HasKey(file, Last.key) /\ file # prev
    /\ \E i \in 1..Len(Last.changes) : Last.changes[i].f \notin Fields

(* C8: every value an insert or an update writes is of the declared type   *)
(* of its column.                                                          *)
C8_TypeConformance ==
    \A k \in DOMAIN file :
        (k \notin DOMAIN prev \/ file[k] # prev[k])
          => \A f \in Fields : validate(ColumnOf(db, f), file[k][f])

(* the calls of the scenario, in order *)
ScenarioCall(i) ==
    CASE i = 1 -> [op |-> "insert", key |-> None, data |-> LobbyOnly,
                   upd |-> NoUpdate]
      [] i = 3 -> [op |-> "update", key |-> KLobby, data |-> <<>>,
                   upd |-> UpdateCall(KLobby, <<Change("members", Str(alice))>>,
                                      TRUE, FALSE)]
      [] i = 5 -> [op |-> "update", key |-> KLobby, data |-> <<>>,
                   upd |-> UpdateCall(KLobby, <<Change("members", Str(bob))>>,
                                      FALSE, TRUE)]
      [] OTHER -> [op |-> "get", key |-> KLobby, data |-> <<>>, upd |-> NoUpdate]

IsScenarioCall(i) ==
    /\ trace[i].op = ScenarioCall(i).op
    /\ trace[i].key = ScenarioCall(i).key
    /\ trace[i].data = ScenarioCall(i).data
    /\ trace[i].changes = ScenarioCall(i).upd.changes
    /\ trace[i].iter_append = ScenarioCall(i).upd.iter_append
    /\ trace[i].iter_pop = ScenarioCall(i).upd.iter_pop

ScenarioUpTo(n) == Len(trace) >= n /\ \A i \in 1..n : IsScenarioCall(i)

(* C9: insert of a room given only name "lobby", then get, returns name    *)
(* "lobby", max_users 5, members []; appending "alice" then get returns    *)
(* members ["alice"]; popping "bob" persists nothing and get still returns *)
(* members ["alice"].                                                      *)
C9_Scenario ==
    /\ ScenarioUpTo(2)
         => /\ trace[2].exc = ""
            /\ trace[2].model["name"] = Str(lobby)
            /\ trace[2].model["max_users"] = IntV(5)
            /\ trace[2].model["members"] = List(<<>>)
    /\ ScenarioUpTo(4)
         => /\ trace[4].exc = ""
            /\ trace[4].model["members"] = List(<<Str(alice)>>)
    /\ ScenarioUpTo(6)
         => /\ trace[6].exc = ""
            /\ trace[6].model["members"] = List(<<Str(alice)>>)
            /\ trace[6].model = trace[4].model

(* C10: a successful update without flags keeps the set of keys, every     *)
(* document under another key, and every field of the document that the    *)
(* changes do not name.                                                    *)
C10_UpdateFrame ==
    (Called /\ Last.op = "update" /\ ~Last.iter_append /\ ~Last.iter_pop
       /\ Last.exc = "")
      => /\ DOMAIN file = DOMAIN prev
         /\ \A k \in DOMAIN file \ {Last.key.s} : file[k] = prev[k]
         /\ \A f \in Fields \ {Last.changes[i].f : i \in 1..Len(Last.changes)} :
               file[Last.key.s][f] = prev[Last.key.s][f]

(* C10 witness: such an update changed a named field in a table that holds *)
(* another document                                                        *)
C10_Witness ==
    /\ Called /\ Last.op = "update" /\ ~Last.iter_append /\ ~Last.iter_pop
    /\ Last.exc = ""
    /\ file[Last.key.s] # prev[Last.key.s]
    /\ Cardinality(DOMAIN file) >= 2

(* C11: update(key, changes) without flags on a stored key, where changes  *)
(* names something that is no field of the schema and gives every schema   *)
(* field it names a value of the declared type, returns; the stored        *)
(* document has the fields of the schema and no other, every schema field  *)
(* named holds the value given for it, and the other fields keep theirs.   *)
UnknownNamed ==
    /\ Called /\ Last.op = "update" /\ ~Last.iter_append /\ ~Last.iter_pop
    /\ HasKey(prev, Last.key)
    /\ \E i \in 1..Len(Last.changes) : Last.changes[i].f \notin Fields
    /\ \A i \in 1..Len(Last.changes) :
          Last.changes[i].f \in Fields
            => /\ validate(ColumnOf(db, Last.changes[i].f), Last.changes[i].v)
               /\ ~PyEq(Last.changes[i].v, NOT_REQUIRED)

C11_UnknownFieldSkipped ==
    UnknownNamed
      => LET k == Last.key.s
             named == {Last.changes[i].f : i \in 1..Len(Last.changes)}
         IN  /\ Last.exc = ""
             /\ DOMAIN file = DOMAIN prev
             /\ DOMAIN file[k] = Fields
             /\ \A i \in 1..Len(Last.changes) :
                   (/\ Last.changes[i].f \in Fields
                    /\ \A j \in (i + 1)..Len(Last.changes) :
                          Last.changes[j].f # Last.changes[i].f)
                     => file[k][Last.changes[i].f] = Last.changes[i].v
             /\ \A f \in Fields \ named : file[k][f] = prev[k][f]

(* C11 witness: such an update also named a schema field and changed it *)
C11_Witness ==
    /\ UnknownNamed
    /\ \E i \in 1..Len(Last.changes) :
          /\ Last.changes[i].f \in Fields
          /\ file[Last.key.s][Last.changes[i].f] # prev[Last.key.s][Last.changes[i].f]

(* the keys an insert of the trace has returned and no later delete of the *)
(* trace has removed                                                       *)
Live ==
    { trace[i].ret : i \in { h \in 1..Len(trace) :
        /\ trace[h].op = "insert" /\ trace[h].exc = "" /\ trace[h].ret # None
        /\ ~\E j \in (h + 1)..Len(trace) :
              /\ trace[j].op = "delete" /\ trace[j].exc = ""
              /\ trace[j].key = trace[h].ret } }

(* every key an insert of the trace has returned is a string, as the keys  *)
(* of a table are                                                          *)
StrKeysReturned ==
    \A i \in 1..Len(trace) :
        (trace[i].op = "insert" /\ trace[i].exc = "") => trace[i].ret.t = "str"

KeySource ==
    LET tokens == IF Head(db.key_provider) = "!" THEN Tail(db.key_provider)
                  ELSE db.key_provider
    IN  {tokens[i] : i \in {h \in 1..Len(tokens) : tokens[h] # "+"}}

SameKeySource(d, e) == \A f \in KeySource : d[f] = e[f]

(* C13: in a table with a hash or a passthrough key rule, two inserts that *)
(* return and whose documents agree on the attributes the rule reads       *)
(* return the same key, whatever the other fields and the content of the   *)
(* table at each insert.                                                   *)
C13_KeyDeterminism ==
    db.key_provider # KEY_AS_UUID4
      => \A i, j \in 1..Len(trace) :
            (/\ trace[i].op = "insert" /\ trace[i].exc = ""
             /\ trace[j].op = "insert" /\ trace[j].exc = ""
             /\ SameKeySource(trace[i].data, trace[j].data))
              => trace[i].ret = trace[j].ret

(* C13 witness: two inserts of documents that differ, into a table that    *)
(* held another document, gave the same key                                *)
C13_Witness ==
    /\ db.key_provider # KEY_AS_UUID4
    /\ Len(trace) = 2
    /\ trace[1].op = "insert" /\ trace[1].exc = ""
    /\ trace[2].op = "insert" /\ trace[2].exc = ""
    /\ trace[1].data # trace[2].data
    /\ trace[1].ret = trace[2].ret
    /\ Cardinality(DOMAIN file) = 2

(* C14: in a table with the random key rule two inserts of identical       *)
(* content that return give two different keys, and when the one follows   *)
(* the other the table then holds both documents, the first as it was.     *)
C14_RandomKeysDiffer ==
    db.key_provider = KEY_AS_UUID4
      => /\ \A i, j \in 1..Len(trace) :
               (/\ i < j
                /\ trace[i].op = "insert" /\ trace[i].exc = ""
                /\ trace[j].op = "insert" /\ trace[j].exc = ""
                /\ trace[i].data = trace[j].data)
                 => trace[i].ret # trace[j].ret
         /\ (/\ Len(trace) >= 2
             /\ Before.op = "insert" /\ Before.exc = ""
             /\ Last.op = "insert" /\ Last.exc = ""
             /\ Before.data = Last.data)
              => /\ {Before.ret.s, Last.ret.s} \subseteq DOMAIN file
                 /\ file[Before.ret.s] = prev[Before.ret.s]
                 /\ Cardinality(DOMAIN file) = Cardinality(DOMAIN prev) + 1
                 /\ file[Last.ret.s] = file[Before.ret.s]

(* C14 witness: two inserts of the same ticket in a row *)
C14_Witness ==
    /\ db.key_provider = KEY_AS_UUID4
    /\ Len(trace) >= 2
    /\ Before.op = "insert" /\ Before.exc = ""
    /\ Last.op = "insert" /\ Last.exc = ""
    /\ Before.data = Last.data
    /\ Cardinality(DOMAIN file) >= 2

(* C15: under a key rule over two attributes (f1, f2), a document with     *)
(* f1 = a, f2 = b and a document with f1 = b, f2 = a get different keys    *)
(* whenever the strings a and b differ.                                    *)
C15_OrderSignificant ==
    (Len(db.key_provider) = 3 /\ db.key_provider[2] = "+")
      => LET f1 == db.key_provider[1]
             f2 == db.key_provider[3]
         IN  \A i, j \in 1..Len(trace) :
                (/\ trace[i].op = "insert" /\ trace[i].exc = ""
                 /\ trace[j].op = "insert" /\ trace[j].exc = ""
                 /\ trace[i].data[f1] = trace[j].data[f2]
                 /\ trace[i].data[f2] = trace[j].data[f1]
                 /\ trace[i].data[f1] # trace[i].data[f2])
                  => trace[i].ret # trace[j].ret

(* text occurs in the text of the file *)
Contains(content, text) ==
    \E i \in 1..(Len(content) - Len(text) + 1) :
        SubSeq(content, i, i + Len(text) - 1) = text

(* C16: a read (get, get_all_keys, get_all_models) of a table whose file   *)
(* has just been overwritten with text that is no JSON leaves, with        *)
(* dump_on_error set, the file equal to an empty object and the text in    *)
(* the .dump file; with dump_on_error unset it raises the error of the     *)
(* parse and writes nothing.                                               *)
C16_RecoveryOnRead ==
    (/\ Len(trace) >= 2 /\ Before.op = "corrupt"
     /\ Last.op \in {"get", "get_all_keys", "get_all_models"})
      => IF db.dump_on_error
         THEN /\ garbage = <<>>
              /\ file = EmptyFile
              /\ Contains(dump, Before.data)
         ELSE /\ Last.exc = "JSONDecodeError"
              /\ garbage = Before.data
              /\ dump = <<>>

(* C19: every construction gave its caller the object the register holds  *)
(* for the table name, with its columns, so the constructions of one name  *)
(* all gave the same object; a construction for a registered name left the *)
(* register as it was.                                                     *)
C19_RegistrySingleton ==
    /\ \A i \in 1..Len(handles) :
          /\ handles[i].self.name \in DOMAIN register
          /\ handles[i] = register[handles[i].self.name]
    /\ \A i, j \in 1..Len(handles) :
          handles[i].self.name = handles[j].self.name
            => handles[i].id = handles[j].id

(* the value is None for a column without default, or cannot be cast to    *)
(* the type of the column                                                  *)
StrictFailure(f, v) == IsRaise(prepare_value(ColumnOf(db, f), v))

(* the latest call is an insert or an update that gives a field such a     *)
(* value: a field of the inserted document, or the value a change sets     *)
(* (the last change of the field in an update without flags, the one       *)
(* change of an update with a flag when the value is no iterable)          *)
StrictlyFailing ==
    /\ Called
    /\ \/ /\ Last.op = "insert"
          /\ \E f \in Fields : StrictFailure(f, Last.data[f])
       \/ /\ Last.op = "update"
          /\ HasKey(prev, Last.key)
          /\ ~(Last.iter_append /\ Last.iter_pop)
          /\ \E i \in 1..Len(Last.changes) :
                /\ Last.changes[i].f \in Fields
                /\ StrictFailure(Last.changes[i].f, Last.changes[i].v)
                /\ \A j \in (i + 1)..Len(Last.changes) :
                      Last.changes[j].f # Last.changes[i].f
                /\ (Last.iter_append \/ Last.iter_pop)
                      => Len(Last.changes) = 1 /\ ~IsIterable(Last.changes[i].v)

(* C17: an insert or an update in which a field with no default receives   *)
(* None, or a value that cannot be cast to the declared type, raises to    *)
(* the caller and leaves the table file as it was before the call.         *)
C17_AbortedWriteKeepsFile ==
    StrictlyFailing
      => /\ Last.exc \in {"RequiredValueNotProvided", "ValueError", "TypeError",
                          "AttributeError"}
         /\ file = prev

(* C17 witness: an update of a stored document raised for the value of a   *)
(* later column of a table that holds two documents                        *)
C17_Witness ==
    /\ StrictlyFailing
    /\ Last.op = "update"
    /\ Last.exc \in {"RequiredValueNotProvided", "ValueError", "TypeError"}
    /\ Cardinality(DOMAIN prev) = 2

(* C20: update(key, {f: x}, iter_pop=True) on a document whose list field  *)
(* f contains x returns and stores the list without its first item equal   *)
(* to x, the other items in their order, and keeps the other fields.       *)
C20_PopRemovesFirst ==
    (/\ UpdatedOne(FALSE, TRUE)
     /\ prev[Last.key.s][Last.changes[1].f].t = "list"
     /\ PyIn(Last.changes[1].v, prev[Last.key.s][Last.changes[1].f].l))
      => LET f == Last.changes[1].f
             k == Last.key.s
             items == prev[k][f].l
         IN  /\ Last.exc = ""
             /\ k \in DOMAIN file
             /\ \E i \in 1..Len(items) :
                   /\ PyEq(items[i], Last.changes[1].v)
                   /\ \A h \in 1..(i - 1) : ~PyEq(items[h], Last.changes[1].v)
                   /\ file[k][f] = List([h \in 1..(Len(items) - 1) |->
                                            IF h < i THEN items[h]
                                            ELSE items[h + 1]])
             /\ \A g \in Fields \ {f} : file[k][g] = prev[k][g]

(* the steps of writer w in the trace, and its store *)
StepsOf(w) == {i \in 1..Len(trace) : trace[i].w = w}

StoreOf(w) == CHOOSE i \in StepsOf(w) : trace[i].step = "store"

(* both writers have stored *)
BothStored ==
    \A w \in Writers : \E i \in StepsOf(w) : trace[i].step = "store"

(* both writers loaded the file before either stored it *)
Interleaved ==
    /\ BothStored
    /\ \A i, j \in 1..Len(trace) :
          (trace[i].step # "store" /\ trace[j].step = "store") => i < j

(* writer a was through before writer b began *)
Serial(a, b) ==
    /\ BothStored
    /\ \A i \in StepsOf(a), j \in StepsOf(b) : i < j

(* the change the call makes is in the file *)
Present(call) ==
    LET k == call.upd.key.s
    IN  IF call.op = "delete" THEN k \notin DOMAIN file
        ELSE /\ k \in DOMAIN file
             /\ \A i \in 1..Len(call.upd.changes) :
                   LET f == call.upd.changes[i].f
                       v == call.upd.changes[i].v
                   IN  IF call.upd.iter_append
                       THEN file[k][f].t = "list" /\ PyIn(v, file[k][f].l)
                       ELSE IF call.upd.iter_pop
                       THEN file[k][f].t = "list" /\ ~PyIn(v, file[k][f].l)
                       ELSE file[k][f] = v

(* C18: when two writers of a table both load the file before either       *)
(* stores it, the file holds the change of the writer that stored last and *)
(* not the change of the other (of two appends to the same list, only one  *)
(* value is stored); when one writer is through before the other begins,   *)
(* and they are two updates or work on different keys, both changes are in *)
(* the file.                                                               *)
C18_LostUpdate ==
    \A a, b \in Writers :
        a # b
          => /\ (Interleaved /\ StoreOf(a) < StoreOf(b))
                  => /\ Present(threads[b].call)
                     /\ ~Present(threads[a].call)
             /\ (/\ Serial(a, b)
                 /\ \/ threads[a].call.op = "update" /\ threads[b].call.op = "update"
                    \/ threads[a].call.upd.key # threads[b].call.upd.key)
                  => /\ Present(threads[a].call)
                     /\ Present(threads[b].call)

(* C18 witness: two appends to the members of one room, both loaded before *)
(* either stored, and one member more in the file                          *)
C18_Witness ==
    /\ Interleaved
    /\ \A w \in Writers : threads[w].call.upd.iter_append
    /\ Len(file[KLobby.s]["members"].l) = Len(RaceFile[KLobby.s]["members"].l) + 1

(* C18 witness of the other half: the same two appends one after the other *)
C18_SerialWitness ==
    /\ Serial(1, 2)
    /\ \A w \in Writers : threads[w].call.upd.iter_append
    /\ Len(file[KLobby.s]["members"].l) = Len(RaceFile[KLobby.s]["members"].l) + 2

-----------------------------------------------------------------------------
(* Direct messages: src/API/modules/direct_messages.py *)

Letters ==
    <<"a", "b", "c", "d", "e", "f", "g", "h", "i", "j", "k", "l", "m",
      "n", "o", "p", "q", "r", "s", "t", "u", "v", "w", "x", "y", "z">>

(* ord(char) of a digit or a lower-case letter *)
ord(char) ==
    IF IsDigit(char) THEN 48 + DigitValue(char)
    ELSE 96 + (CHOOSE i \in DOMAIN Letters : Letters[i] = char)

(* sum([ord(char) for char in db_key]) *)
RECURSIVE SumOrd(_)
SumOrd(db_key) ==
    IF db_key = <<>> THEN 0 ELSE ord(Head(db_key)) + SumOrd(Tail(db_key))

create_relation_id_ordered(user_a_db_key, user_b_db_key) ==
    Sha1Hex(IntChars(SumOrd(user_a_db_key)) \o IntChars(SumOrd(user_b_db_key)))

create_relation_id(user_a_db_key, user_b_db_key) ==
    LET hash_a == SumOrd(user_a_db_key)
        hash_b == SumOrd(user_b_db_key)
        seed == hash_a + hash_b
    IN  Sha1Hex(IntChars(seed))

(* Message.create_id *)
create_id(author, content, date_sent) ==
    Sha1Hex(author \o content \o IntChars(date_sent))

(* Message.create_message: the dataclass with the id and the relation id   *)
(* __post_init__ sets                                                      *)
create_message(author, target, content) ==
    [author |-> author, target |-> target, content |-> content,
     date_sent |-> now, id |-> create_id(author, content, now),
     relation_id |-> create_relation_id(author, target)]

(* RelationStackManager(relation_id) when the relation has no file yet:    *)
(* __ensure_file makes an empty file, __load_stack finds no JSON in it;    *)
(* saved is the list __save_stack wrote to the file                        *)
RelationStackManager(relation_id) ==
    [relation_id |-> relation_id, messages_stack |-> <<>>,
     message_ids_history |-> <<>>, saved |-> <<>>]

(* RelationStackManager.get_stack: the register with the stack of the      *)
(* relation in it                                                          *)
get_stack(relation_id) ==
    IF relation_id \in DOMAIN stacks THEN stacks
    ELSE [r \in DOMAIN stacks \cup {relation_id} |->
            IF r = relation_id THEN RelationStackManager(relation_id)
            ELSE stacks[r]]

(* RelationStackManager.append_message *)
append_message(self, message) ==
    IF \E i \in DOMAIN self.message_ids_history :
          self.message_ids_history[i] = message.id
    THEN self
    ELSE LET appended == Append(self.message_ids_history, message.id)
             history == IF Len(appended) > 5 THEN SubSeq(appended, 1, 5)
                        ELSE appended
             messages_stack == Append(self.messages_stack, message)
         IN  [self EXCEPT !.message_ids_history = history,
                          !.messages_stack = messages_stack,
                          !.saved = messages_stack]

(* the messages all the stacks hold *)
RECURSIVE Stacked(_)
Stacked(ids) ==
    IF ids = {} THEN 0
    ELSE LET r == CHOOSE r \in ids : TRUE
         IN  Len(stacks[r].messages_stack) + Stacked(ids \ {r})

(* the body of /dms/sendMessage once the client and the target are known *)
send_direct_message(db_key, target_db_key, content, bound) ==
    /\ Stacked(DOMAIN stacks) < bound
    /\ LET relation_id == create_relation_id(db_key, target_db_key)
           register_ == get_stack(relation_id)
           message == create_message(db_key, target_db_key, content)
       IN  stacks' = [register_ EXCEPT
                        ![relation_id] = append_message(@, message)]
    /\ UNCHANGED <<table, file, prev, trace, uuid, exists, garbage, dump,
                   register, handles, threads, dbs, now, reqs>>

MaxNow == 1

(* a second passes *)
Tick ==
    /\ now < MaxNow
    /\ now' = now + 1
    /\ UNCHANGED <<table, file, prev, trace, uuid, exists, garbage, dump,
                   register, handles, threads, dbs, stacks, reqs>>

(* the keys of three accounts, in the alphabet of a hex digest *)
ka == <<"a", "1">>

kb == <<"b", "2">>

kc == <<"c", "4">>

hello == <<"h", "i">>

again == <<"y", "o">>

DmCalls == 7

RelationCalls == 3

(* the API process after its start: no stack was asked for yet *)
InitDms ==
    /\ table = "users"
    /\ file = EmptyFile
    /\ prev = file
    /\ trace = <<>>
    /\ uuid = <<>>
    /\ exists = TRUE
    /\ garbage = <<>>
    /\ dump = <<>>
    /\ register = <<>>
    /\ handles = <<>>
    /\ threads = <<>>
    /\ dbs = <<>>
    /\ now = 0
    /\ stacks = <<>>
    /\ reqs = <<>>

(* two accounts write to one another *)
NextDms ==
    \/ \E author \in {ka, kb}, content \in {hello, again} :
          send_direct_message(author, CHOOSE k \in {ka, kb} : k # author,
                              content, DmCalls)
    \/ Tick

SpecDms == InitDms /\ [][NextDms]_vars

(* three accounts write to one another *)
NextRelation ==
    \/ \E author, target \in {ka, kb, kc} :
          /\ author # target
          /\ send_direct_message(author, target, hello, RelationCalls)
    \/ Tick

SpecRelation == InitDms /\ [][NextRelation]_vars

(* the messages of a stack, in the order of their appending *)
MessagesOf(r) == stacks[r].messages_stack

(* C21: create_relation_id(a, b) equals create_relation_id(b, a) for all    *)
(* user keys a and b, so the stack that holds a message from a to b is the  *)
(* stack the relation id of b and a resolves to.                            *)
C21_RelationSymmetric ==
    /\ \A a, b \in {ka, kb, kc} :
          create_relation_id(a, b) = create_relation_id(b, a)
    /\ \A r \in DOMAIN stacks : \A i \in DOMAIN MessagesOf(r) :
          LET message == MessagesOf(r)[i]
          IN  /\ r = create_relation_id(message.author, message.target)
              /\ r = create_relation_id(message.target, message.author)
              /\ get_stack(create_relation_id(message.target, message.author))
                   = stacks

(* C21 witness: one stack holds a message of each of two accounts to the    *)
(* other, next to the stack of another relation                             *)
C21_Witness ==
    /\ Cardinality(DOMAIN stacks) >= 2
    /\ \E r \in DOMAIN stacks : \E i, j \in DOMAIN MessagesOf(r) :
          /\ MessagesOf(r)[i].author # MessagesOf(r)[i].target
          /\ MessagesOf(r)[i].author = MessagesOf(r)[j].target
          /\ MessagesOf(r)[i].target = MessagesOf(r)[j].author

(* C29: a stack never holds (nor saves) a message whose id is the id of     *)
(* one of the five messages appended before it; in particular two           *)
(* append_message calls in a row with the same id add one message.          *)
C29_SpamGuard ==
    \A r \in DOMAIN stacks : \A i, j \in DOMAIN MessagesOf(r) :
        (i < j /\ j - i <= 5)
          => /\ MessagesOf(r)[i].id # MessagesOf(r)[j].id
             /\ stacks[r].saved[i].id # stacks[r].saved[j].id

(* C22: once delete(k) has returned, k is absent from the table in every    *)
(* later state (the writers insert nothing), also when an update of k that  *)
(* loaded the document before the delete stores after it.                   *)
C22_DeleteIsPermanent ==
    \A w \in Writers :
        (/\ threads[w].call.op = "delete"
         /\ threads[w].pc = "done"
         /\ threads[w].exc = "")
          => ~HasKey(file, threads[w].call.upd.key)

(* the latest call is an insert into a table with a hash or passthrough    *)
(* key rule whose derived key the table held                               *)
Upserting ==
    /\ Called
    /\ Last.op = "insert"
    /\ db.key_provider # KEY_AS_UUID4
    /\ HasKey(prev, parse_key_provider(db.key_provider, Last.data))

(* C23: insert is an upsert. An insert whose derived key k is already      *)
(* present raises nothing for it (it raises exactly what the same insert   *)
(* into an empty table raises, when the document itself is refused), and   *)
(* when it returns it returns k, the document under k is the new one in    *)
(* every field, and the keys and every other document are as before.       *)
C23_InsertIsUpsert ==
    Upserting
      => LET k == parse_key_provider(db.key_provider, Last.data)
         IN  /\ Last.exc # "KeyNotFound"
             /\ Last.exc = insert(db, EmptyFile, Last.data).exc
             /\ Last.exc = ""
                  => /\ Last.ret = k
                     /\ DOMAIN file[k.s] = Fields
                     /\ \A f \in Fields :
                           file[k.s][f]
                             = prepare_value(ColumnOf(db, f), Last.data[f])
                     /\ DOMAIN file = DOMAIN prev
                     /\ Cardinality(DOMAIN file) = Cardinality(DOMAIN prev)
                     /\ \A other \in DOMAIN prev \ {k.s} :
                           file[other] = prev[other]

(* C23 witness: an insert returned a key the table held, next to another   *)
(* key, and the document under it changed                                  *)
C23_Witness ==
    /\ Upserting
    /\ Last.exc = ""
    /\ Last.ret.t = "str"
    /\ Cardinality(DOMAIN prev) >= 2
    /\ file[Last.ret.s] # prev[Last.ret.s]

(* every key of the content is the key the rule of the table derives from *)
(* the document stored under it                                            *)
KeysDerived(db_content) ==
    \A k \in DOMAIN db_content :
        LET derived == parse_key_provider(db.key_provider, db_content[k])
        IN  derived.t \in {"str", "int"} /\ JsonKey(derived) = Str(k)

(* C24: in a table with a hash or passthrough key rule, each stored key is *)
(* the key the rule derives from the document stored under it, in every    *)
(* state insert, update and delete reach; in particular an update of a     *)
(* table whose keys are derived leaves them derived.                       *)
C24_KeyMatchesContent ==
    (/\ db.key_provider # KEY_AS_UUID4
     /\ Called
     /\ Last.op = "update"
     /\ KeysDerived(prev))
      => KeysDerived(file)

-----------------------------------------------------------------------------
(* The application: src/API/modules/users.py, sessions.py, rooms.py and    *)
(* the request handlers of src/API/api.py.                                 *)
(*                                                                         *)
(* A world is what a function of the application reads and writes: the     *)
(* files of the tables (dbs) and the strings uuid4 is going to draw        *)
(* (uuid). A function gives back the world it leaves, the value it         *)
(* returns and the exception that left it ("" when it returned).           *)

World(dbs_, uuid_) == [dbs |-> dbs_, uuid |-> uuid_]

Ret(w, ret) == [w |-> w, ret |-> ret, exc |-> ""]

Exc(w, exc) == [w |-> w, ret |-> None, exc |-> exc]

(* the world with the file of one table replaced *)
Saved(w, name, db_content) ==
    [w EXCEPT !.dbs = [@ EXCEPT ![name] = db_content]]

(* a value and what the code does with it; the value is computed once *)
Bind(value, Follow(_)) == CHOOSE out \in {Follow(v) : v \in {value}} : TRUE

(* a call and what the caller does once it returned; an exception leaves   *)
(* the caller too                                                          *)
Try(called, Follow(_)) ==
    Bind(called, LAMBDA r : IF r.exc # "" THEN r ELSE Follow(r))

(* a call of a method of the store on the table of that name: the file it  *)
(* leaves is the table's, its exception leaves the caller                  *)
Stored(w, name, called) ==
    Bind(called, LAMBDA r : IF r.exc # "" THEN Exc(w, r.exc)
                            ELSE Ret(Saved(w, name, r.file), r.ret))

users_db == Database(UserModel)

rooms_db == Database(RoomModel)

sessions_db == Database(SessionModel)

(* item in container, for a container that is a str (a substring test) or  *)
(* a list (an equality test of the items)                                  *)
PyContains(item, container) ==
    IF container.t = "list" THEN PyIn(item, container.l)
    ELSE /\ container.t = "str"
         /\ item.t = "str"
         /\ \E i \in 0..Len(container.s) :
               /\ i + Len(item.s) <= Len(container.s)
               /\ SubSeq(container.s, i + 1, i + Len(item.s)) = item.s

(* what a for loop over the value visits: the items of a list, the         *)
(* one-character strings of a str                                          *)
PyIter(v) ==
    IF v.t = "list" THEN v.l
    ELSE [i \in 1..Len(v.s) |-> Str(<<v.s[i]>>)]

(* bcrypt.hashpw(password, bcrypt.gensalt()): kept symbolic, the salt left *)
(* out                                                                     *)
hashpw(password) == <<"bcrypt(">> \o password \o <<")">>

(* bcrypt.checkpw *)
checkpw(password, hashed) == hashpw(password) = hashed

(* timestamp.SESSION_EXISTENCE_PERIOD_H, in seconds *)
SESSION_EXISTENCE_PERIOD == 3600

(* timestamp.INACTIVE_ROOM_EXISTENCE_PERIOD_D, in seconds *)
INACTIVE_ROOM_EXISTENCE_PERIOD == 14 * 86400

(* timestamp.generate_timestamp() *)
generate_timestamp == IntV(now)

-----------------------------------------------------------------------------
(* sessions.py: Session *)

(* Session.from_model *)
Session_from_model(model) ==
    [user_key |-> model["user_key"], session_id |-> model["session_id"],
     date_created |-> model["date_created"],
     date_renewed |-> model["date_renewed"]]

(* Session.create_session *)
create_session(w, user_key) ==
    Bind(new_model(SessionModel,
             [f \in {"user_key", "session_id", "date_created",
                     "date_renewed"} |->
                 CASE f = "user_key" -> user_key
                   [] f = "session_id" -> Str(Head(w.uuid))
                   [] OTHER -> generate_timestamp]),
         LAMBDA model :
             Try(Stored(World(w.dbs, Tail(w.uuid)), "sessions",
                        insert(sessions_db, w.dbs["sessions"], model)),
                 LAMBDA inserted :
                     Ret(inserted.w, Session_from_model(model))))

(* Session.get_session_by_key *)
get_session_by_key(w, user_key) ==
    Bind(get(sessions_db, w.dbs["sessions"], user_key),
         LAMBDA got : IF got.exc # "" THEN Exc(w, got.exc)
                      ELSE Ret(w, Session_from_model(got.model)))

(* Session.is_expired: Datetime.now() > date_expire, the date of the       *)
(* latest renewal plus the session period                                  *)
session_is_expired(session) ==
    now > session.date_renewed.n + SESSION_EXISTENCE_PERIOD

(* Session.renew *)
renew(w, session) ==
    Stored(w, "sessions",
           update(sessions_db, w.dbs["sessions"], session.user_key,
                  <<Change("date_renewed", generate_timestamp)>>,
                  FALSE, FALSE))

(* Session.drop *)
drop(w, session) ==
    Stored(w, "sessions",
           delete(sessions_db, w.dbs["sessions"], session.user_key))

-----------------------------------------------------------------------------
(* users.py: User *)

users_create_db_key(username) == Str(Sha1Hex(username.s))

is_username_available(w, username) ==
    users_create_db_key(username)
        \notin get_all_keys(users_db, w.dbs["users"]).all

(* a creation that never looks whether the username is taken *)
create_user_replacing(w, username, password) ==
    Stored(w, "users",
           insert(users_db, w.dbs["users"],
                  new_model(UserModel,
                      [f \in {"username", "password", "date_join",
                              "allow_friend_request", "friends"} |->
                          CASE f = "username" -> username
                            [] f = "password" -> Str(hashpw(password.s))
                            [] f = "date_join" -> generate_timestamp
                            [] f = "allow_friend_request" -> Bool(TRUE)
                            [] OTHER -> List(<<>>)])))

(* User.create_user: ret is False or the key of the user made *)
create_user(w, username, password) ==
    IF ~is_username_available(w, username) THEN Ret(w, Bool(FALSE))
    ELSE Stored(w, "users",
                insert(users_db, w.dbs["users"],
                       new_model(UserModel,
                           [f \in {"username", "password", "date_join",
                                   "allow_friend_request", "friends"} |->
                               CASE f = "username" -> username
                                 [] f = "password" -> Str(hashpw(password.s))
                                 [] f = "date_join" -> generate_timestamp
                                 [] f = "allow_friend_request" -> Bool(TRUE)
                                 [] OTHER -> List(<<>>)])))

(* User.from_model and __post_init__ *)
User_from_model(user_model) ==
    [username |-> user_model["username"],
     password |-> user_model["password"],
     date_join |-> user_model["date_join"],
     last_interaction |-> user_model["last_interaction"],
     active_rooms |-> user_model["active_rooms"],
     friends |-> user_model["friends"],
     allow_friend_request |-> user_model["allow_friend_request"],
     db_key |-> users_create_db_key(user_model["username"])]

(* User.get_user_by_key *)
get_user_by_key(w, key) ==
    IF key \notin get_all_keys(users_db, w.dbs["users"]).all
    THEN Exc(w, "KeyNotFound")
    ELSE Ret(w, User_from_model(get(users_db, w.dbs["users"], key).model))

(* User.get_user_by_name *)
get_user_by_name(w, username) ==
    IF is_username_available(w, username) THEN Exc(w, "KeyNotFound")
    ELSE Ret(w, User_from_model(get(users_db, w.dbs["users"],
                                    users_create_db_key(username)).model))

(* User.check_password *)
check_password(self, provided_password) ==
    checkpw(provided_password.s, self.password.s)

(* User.get_session *)
get_session(w, self) ==
    Bind(get_session_by_key(w, self.db_key),
         LAMBDA found : IF found.exc = "KeyNotFound"
                        THEN create_session(w, self.db_key)
                        ELSE found)

(* User.has_valid_session *)
has_valid_session(w, self) ==
    Bind(get_session_by_key(w, self.db_key),
         LAMBDA found : found.exc = "" /\ ~session_is_expired(found.ret))

(* User.has_expired_session *)
has_expired_session(w, self) ==
    Bind(get_session_by_key(w, self.db_key),
         LAMBDA found : found.exc = "" /\ session_is_expired(found.ret))

(* User.delete_user *)
delete_user(w, self) ==
    Try(get_session(w, self), LAMBDA session :
    Try(drop(session.w, session.ret), LAMBDA dropped :
        Stored(dropped.w, "users",
               delete(users_db, dropped.w.dbs["users"], self.db_key))))

(* a call of users_db.update by a method of the user *)
users_update(w, self, f, v, iter_append, iter_pop) ==
    Stored(w, "users",
           update(users_db, w.dbs["users"], self.db_key,
                  <<Change(f, v)>>, iter_append, iter_pop))

(* User.add_active_room: ret is the object, its list appended to; a str    *)
(* has no append, and the AttributeError comes after the update            *)
add_active_room(w, self, room_id) ==
    IF PyContains(room_id, self.active_rooms) THEN Ret(w, self)
    ELSE Try(users_update(w, self, "active_rooms", room_id, TRUE, FALSE),
             LAMBDA updated :
                 IF self.active_rooms.t # "list"
                 THEN Exc(updated.w, "AttributeError")
                 ELSE Ret(updated.w,
                          [self EXCEPT
                              !.active_rooms = List(Append(@.l, room_id))]))

(* User.remove_active_room: ret is the object, the id removed from its     *)
(* list; a str has no remove, and the AttributeError comes after the       *)
(* update                                                                  *)
remove_active_room(w, self, room_id) ==
    IF ~PyContains(room_id, self.active_rooms) THEN Ret(w, self)
    ELSE Try(users_update(w, self, "active_rooms", room_id, FALSE, TRUE),
             LAMBDA updated :
                 IF self.active_rooms.t # "list"
                 THEN Exc(updated.w, "AttributeError")
                 ELSE Ret(updated.w,
                          [self EXCEPT
                              !.active_rooms = List(PyRemove(@.l, room_id))]))

(* User.update_last_interaction_date *)
update_last_interaction_date(w, self) ==
    users_update(w, self, "last_interaction", generate_timestamp, FALSE, FALSE)

(* User.set_allow_friend_requests *)
set_allow_friend_requests(w, self, state) ==
    users_update(w, self, "allow_friend_requests", state, FALSE, FALSE)

(* a validation that never looks at the expiry of the session *)
validate_auth_data_unexpiring(w, db_key, session_id) ==
    IF db_key = None THEN Ret(w, Bool(FALSE))
    ELSE Bind(get_user_by_key(w, db_key), LAMBDA account :
         IF account.exc = "KeyNotFound" THEN Ret(w, Bool(FALSE))
         ELSE Try(get_session(account.w, account.ret), LAMBDA session :
              IF session.ret.session_id # session_id
              THEN Ret(session.w, Bool(FALSE))
              ELSE Try(renew(session.w, session.ret), LAMBDA renewed :
                   Try(update_last_interaction_date(renewed.w, account.ret),
                       LAMBDA dated : Ret(dated.w, Bool(TRUE))))))

(* sessions._validate_auth_data: ret is the bool returned *)
validate_auth_data(w, db_key, session_id) ==
    IF db_key = None THEN Ret(w, Bool(FALSE))
    ELSE Bind(get_user_by_key(w, db_key), LAMBDA account :
         IF account.exc = "KeyNotFound" THEN Ret(w, Bool(FALSE))
         ELSE Try(get_session(account.w, account.ret), LAMBDA session :
              IF session.ret.session_id # session_id
              THEN Ret(session.w, Bool(FALSE))
              ELSE IF session_is_expired(session.ret)
              THEN Try(drop(session.w, session.ret),
                       LAMBDA dropped : Ret(dropped.w, Bool(FALSE)))
              ELSE Try(renew(session.w, session.ret), LAMBDA renewed :
                   Try(update_last_interaction_date(renewed.w, account.ret),
                       LAMBDA dated : Ret(dated.w, Bool(TRUE))))))

-----------------------------------------------------------------------------
(* rooms.py: Room *)

MAX_USERS_PER_ROOM == 5

CODE_LENGTH == 6

rooms_create_db_key(name) == Str(Sha1Hex(name.s))

is_name_available(w, name) ==
    rooms_create_db_key(name)
        \notin get_all_keys(rooms_db, w.dbs["rooms"]).all

(* Room.from_model, and the key and the code __post_init__ sets *)
Room_from_model(model) ==
    [name |-> model["name"], admin_key |-> model["admin"],
     date_created |-> model["date_created"],
     last_interaction |-> model["last_interaction"],
     max_users |-> model["max_users"], password |-> model["password"],
     is_locked |-> model["is_locked"], members |-> model["members"],
     db_key |-> rooms_create_db_key(model["name"]),
     code |-> SubSeq(rooms_create_db_key(model["name"]).s, 1, CODE_LENGTH)]

(* max_users in range(1, MAX_USERS_PER_ROOM + 1) *)
InRange(value, low, high) ==
    value.t \in {"int", "bool"} /\ low <= value.n /\ value.n < high

(* the model create_room inserts *)
room_model(name, admin_key, max_users, password) ==
    new_model(RoomModel,
        [f \in {"name", "admin", "date_created", "last_interaction",
                "max_users", "password", "members"} |->
            CASE f = "name" -> name
              [] f = "admin" -> admin_key
              [] f = "max_users" -> max_users
              [] f = "password" -> password
              [] f = "members" -> List(<<admin_key>>)
              [] OTHER -> generate_timestamp])

create_room_unbounded(w, name, admin_key, max_users, password) ==
    IF ~is_name_available(w, name) THEN Ret(w, Bool(FALSE))
    ELSE IF admin_key \notin get_all_keys(users_db, w.dbs["users"]).all
         THEN Ret(w, Bool(FALSE))
    ELSE Bind(room_model(name, admin_key, max_users, password),
              LAMBDA model :
                  Try(Stored(w, "rooms",
                             insert(rooms_db, w.dbs["rooms"], model)),
                      LAMBDA inserted :
                          Ret(inserted.w, Room_from_model(model))))

(* Room.create_room: ret is False or the room made *)
create_room(w, name, admin_key, max_users, password) ==
    IF ~is_name_available(w, name) THEN Ret(w, Bool(FALSE))
    ELSE IF admin_key \notin get_all_keys(users_db, w.dbs["users"]).all
         THEN Ret(w, Bool(FALSE))
    ELSE Bind(room_model(name, admin_key,
                         IF ~InRange(max_users, 1, MAX_USERS_PER_ROOM + 1)
                         THEN IntV(MAX_USERS_PER_ROOM) ELSE max_users,
                         password),
              LAMBDA model :
                  Try(Stored(w, "rooms",
                             insert(rooms_db, w.dbs["rooms"], model)),
                      LAMBDA inserted :
                          Ret(inserted.w, Room_from_model(model))))

(* Room.get_room_by_key *)
get_room_by_key(w, key) ==
    Bind(get(rooms_db, w.dbs["rooms"], key),
         LAMBDA got : IF got.exc # "" THEN Exc(w, got.exc)
                      ELSE Ret(w, Room_from_model(got.model)))

(* Room.get_room_by_code: the first key of the table the code begins; the  *)
(* codes of the rooms of the model differ, so at most one key matches      *)
get_room_by_code(w, code) ==
    Bind({ key \in get_all_keys(rooms_db, w.dbs["rooms"]).all :
              code.s = SubSeq(key.s, 1, CODE_LENGTH) },
         LAMBDA matches :
             IF matches = {} THEN Exc(w, "KeyNotFound")
             ELSE get_room_by_key(w, CHOOSE key \in matches : TRUE))

(* Room.get_free_slots *)
get_free_slots(self) == self.max_users.n - Len(self.members.l)

(* Room.is_expired *)
room_is_expired(self) ==
    now > self.last_interaction.n + INACTIVE_ROOM_EXISTENCE_PERIOD

(* Room.check_password *)
room_check_password(self, provided_password) ==
    IF self.password.s = <<>> THEN TRUE
    ELSE checkpw(provided_password.s, self.password.s)

(* a call of rooms_db.update by a method of the room *)
rooms_update(w, self, f, v, iter_append, iter_pop) ==
    Stored(w, "rooms",
           update(rooms_db, w.dbs["rooms"], self.db_key,
                  <<Change(f, v)>>, iter_append, iter_pop))

(* Room.remove_room; the files of the room are left out *)
remove_room(w, self) ==
    Stored(w, "rooms", delete(rooms_db, w.dbs["rooms"], self.db_key))

(* Room.add_member_key *)
add_member_key(w, self, member_key) ==
    rooms_update(w, self, "members", member_key, TRUE, FALSE)

(* Room.remove_member_key *)
remove_member_key(w, self, member_key) ==
    IF ~PyContains(member_key, self.members) THEN Ret(w, None)
    ELSE rooms_update(w, self, "members", member_key, FALSE, TRUE)

(* Room.has_member *)
has_member(self, user_key) ==
    PyContains(user_key, self.members) \/ user_key = self.admin_key

(* rooms.validate_room for a request that names a room code and a user:    *)
(* ret is True when the handler may run                                    *)
validate_room(w, db_key, room_code) ==
    Bind(get_room_by_code(w, room_code), LAMBDA room :
        IF room.exc = "KeyNotFound" THEN Ret(w, Bool(FALSE))
        ELSE IF ~has_member(room.ret, db_key) THEN Ret(w, Bool(FALSE))
        ELSE IF room_is_expired(room.ret)
             THEN Try(remove_room(w, room.ret),
                      LAMBDA removed : Ret(removed.w, Bool(FALSE)))
        ELSE Ret(w, Bool(TRUE)))

-----------------------------------------------------------------------------
(* api.py: the request handlers. A handler gives back the world it leaves, *)
(* the "status" of its response (None when an exception left the handler   *)
(* and no response was made) and that exception.                           *)

Response(w, status) == [w |-> w, status |-> Bool(status), exc |-> ""]

Unhandled(w, exc) == [w |-> w, status |-> None, exc |-> exc]

(* a call in a handler and what the handler does once it returned; an      *)
(* exception leaves the handler, which makes no response                   *)
Calls(called, Follow(_)) ==
    Bind(called, LAMBDA r : IF r.exc # "" THEN Unhandled(r.w, r.exc)
                            ELSE Follow(r))

(* a decorator let the request through: no response is made yet *)
Pending(w) == [w |-> w, status |-> None, exc |-> ""]

(* sessions.validate_client: the response of a failed validation, or the   *)
(* request let through to the handler                                      *)
validate_client(w, db_key, session_id) ==
    Calls(validate_auth_data(w, db_key, session_id), LAMBDA validated :
        IF validated.ret = Bool(FALSE) THEN Response(validated.w, FALSE)
        ELSE Pending(validated.w))

(* a handler behind a decorator: it runs when the decorator let the        *)
(* request through                                                         *)
Wrapped(checked, Handler(_)) ==
    Bind(checked, LAMBDA r : IF r = Pending(r.w) THEN Handler(r.w) ELSE r)

(* POST /accounts/create *)
create_account(w, username, password) ==
    IF Len(username.s) < 5 THEN Response(w, FALSE)
    ELSE IF Len(username.s) > 16 THEN Response(w, FALSE)
    ELSE IF Len(password.s) < 5 THEN Response(w, FALSE)
    ELSE Calls(create_user(w, username, password), LAMBDA account :
              Response(account.w, account.ret # Bool(FALSE)))

(* POST /accounts/login *)
account_login(w, username, password) ==
    Bind(get_user_by_name(w, username), LAMBDA account :
        IF account.exc = "KeyNotFound" THEN Response(w, FALSE)
        ELSE IF ~check_password(account.ret, password) THEN Response(w, FALSE)
        ELSE
        Calls(IF has_valid_session(w, account.ret)
             THEN Try(get_session(w, account.ret),
                      LAMBDA valid : drop(valid.w, valid.ret))
             ELSE Ret(w, None), LAMBDA w1 :
        Calls(IF has_expired_session(w1.w, account.ret)
             THEN Try(get_session(w1.w, account.ret),
                      LAMBDA expired : drop(expired.w, expired.ret))
             ELSE Ret(w1.w, None), LAMBDA w2 :
        Calls(get_session(w2.w, account.ret), LAMBDA session :
        Calls(renew(session.w, session.ret), LAMBDA renewed :
             Response(renewed.w, TRUE))))))

(* the loop of delete_account over account.active_rooms *)
RECURSIVE leave_active_rooms(_, _, _)
leave_active_rooms(w, account, room_keys) ==
    IF room_keys = <<>> THEN Ret(w, None)
    ELSE Try(get_room_by_key(w, Head(room_keys)), LAMBDA room :
         Try(remove_member_key(room.w, room.ret, account.db_key),
             LAMBDA removed :
                 leave_active_rooms(removed.w, account, Tail(room_keys))))

(* POST /accounts/delete *)
delete_account(w, db_key, password) ==
    Calls(get_user_by_key(w, db_key), LAMBDA account :
    Calls(leave_active_rooms(w, account.ret, PyIter(account.ret.active_rooms)),
         LAMBDA left :
             IF ~check_password(account.ret, password)
             THEN Response(left.w, FALSE)
             ELSE Calls(delete_user(left.w, account.ret),
                       LAMBDA deleted : Response(deleted.w, TRUE))))

(* the loop of get_account_data over account.active_rooms: the iterator    *)
(* is at item i of the value, which remove_active_room shortens under it   *)
RECURSIVE rooms_of_account(_, _, _)
rooms_of_account(w, account, i) ==
    IF i > Len(PyIter(account.active_rooms)) THEN Ret(w, account)
    ELSE Bind(PyIter(account.active_rooms)[i], LAMBDA room_key :
         Bind(get_room_by_key(w, room_key), LAMBDA room :
             IF room.exc = "KeyNotFound"
             THEN Try(remove_active_room(w, account, room_key),
                      LAMBDA removed :
                          rooms_of_account(removed.w, removed.ret, i + 1))
             ELSE IF ~PyContains(room.ret.db_key, account.active_rooms)
             THEN Try(add_active_room(w, account, room.ret.db_key),
                      LAMBDA added :
                          rooms_of_account(added.w, added.ret, i + 1))
             ELSE rooms_of_account(w, account, i + 1)))

(* POST /accounts/userData; the account has no friends and no friend       *)
(* request was sent to it, so the two loops over them do nothing           *)
get_account_data(w, db_key, session_id) ==
    Wrapped(validate_client(w, db_key, session_id), LAMBDA v :
        Calls(get_user_by_key(v, db_key), LAMBDA account :
        Calls(rooms_of_account(account.w, account.ret, 1),
             LAMBDA listed : Response(listed.w, TRUE))))

(* POST /accounts/setAllowFriendRequests *)
api_set_allow_friend_requests(w, db_key, session_id, state) ==
    Wrapped(validate_client(w, db_key, session_id), LAMBDA v :
        Calls(get_user_by_key(v, db_key), LAMBDA account :
            IF state.n \notin {0, 1} THEN Response(account.w, FALSE)
            ELSE Calls(set_allow_friend_requests(account.w, account.ret,
                                                Bool(state.n # 0)),
                      LAMBDA set : Response(set.w, TRUE))))

(* POST /rooms/create *)
api_create_room(w, db_key, session_id, name, max_users, password) ==
    Wrapped(validate_client(w, db_key, session_id), LAMBDA v :
        IF Len(name.s) < 5 THEN Response(v, FALSE)
        ELSE IF Len(name.s) > 16 THEN Response(v, FALSE)
        ELSE IF ~is_name_available(v, name) THEN Response(v, FALSE)
        ELSE
        Calls(create_room(v, name, db_key,
                         IF ~InRange(max_users, 2, MAX_USERS_PER_ROOM + 1)
                         THEN IntV(MAX_USERS_PER_ROOM) ELSE max_users,
                         IF password = None THEN None
                         ELSE Str(hashpw(password.s))), LAMBDA room :
            IF room.ret = Bool(FALSE) THEN Unhandled(room.w, "AttributeError")
            ELSE
            Calls(get_user_by_key(room.w, db_key), LAMBDA account :
            Calls(add_active_room(account.w, account.ret, room.ret.db_key),
                 LAMBDA added : Response(added.w, TRUE)))))

(* the end of join_room, once the room lets the account in *)
join(w, account, room) ==
    Calls(add_member_key(w, room, account.db_key), LAMBDA joined :
    Calls(add_active_room(joined.w, account, room.db_key),
         LAMBDA added : Response(added.w, TRUE)))

(* POST /rooms/joinRoom *)
join_room(w, db_key, session_id, room_code, password) ==
    Wrapped(validate_client(w, db_key, session_id), LAMBDA v :
        Calls(get_user_by_key(v, db_key), LAMBDA account :
        Bind(get_room_by_code(account.w, room_code), LAMBDA room :
            IF room.exc = "KeyNotFound" THEN Response(room.w, FALSE)
            ELSE IF room.ret.is_locked.n # 0 THEN Response(room.w, FALSE)
            ELSE IF get_free_slots(room.ret) < 1 THEN Response(room.w, FALSE)
            ELSE IF room.ret.password.s = <<>>
                 THEN join(room.w, account.ret, room.ret)
            ELSE IF password = None THEN Response(room.w, FALSE)
            ELSE IF room_check_password(room.ret, password)
                 THEN join(room.w, account.ret, room.ret)
            ELSE Response(room.w, FALSE))))

(* POST /rooms/leaveRoom *)
leave_room(w, db_key, session_id, room_code) ==
    Wrapped(validate_client(w, db_key, session_id), LAMBDA v :
        Calls(validate_room(v, db_key, room_code), LAMBDA checked :
            IF checked.ret = Bool(FALSE) THEN Response(checked.w, FALSE)
            ELSE
            Calls(get_room_by_code(checked.w, room_code), LAMBDA room :
            Calls(remove_member_key(room.w, room.ret, db_key), LAMBDA left :
            Calls(get_user_by_key(left.w, db_key), LAMBDA account :
            Calls(remove_active_room(account.w, account.ret, room.ret.db_key),
                 LAMBDA removed :
                IF room.ret.admin_key # db_key THEN Response(removed.w, TRUE)
                ELSE Calls(remove_room(removed.w, room.ret),
                          LAMBDA closed : Response(closed.w, TRUE))))))))

(* POST /rooms/admin/kickMember *)
kick_member(w, db_key, session_id, room_code, member_name) ==
    Wrapped(validate_client(w, db_key, session_id), LAMBDA v :
        Calls(validate_room(v, db_key, room_code), LAMBDA checked :
            IF checked.ret = Bool(FALSE) THEN Response(checked.w, FALSE)
            ELSE
            Calls(get_user_by_key(checked.w, db_key), LAMBDA admin_account :
            Calls(get_room_by_code(admin_account.w, room_code), LAMBDA room :
                IF room.ret.admin_key # admin_account.ret.db_key
                THEN Response(room.w, FALSE)
                ELSE
                Bind(get_user_by_name(room.w, member_name),
                     LAMBDA member_account :
                    IF member_account.exc = "KeyNotFound"
                    THEN Response(room.w, FALSE)
                    ELSE IF ~has_member(room.ret, member_account.ret.db_key)
                    THEN Response(room.w, FALSE)
                    ELSE
                    Calls(remove_member_key(room.w, room.ret,
                                           member_account.ret.db_key),
                         LAMBDA kicked :
                    Calls(remove_active_room(kicked.w, member_account.ret,
                                            room.ret.db_key),
                         LAMBDA removed : Response(removed.w, TRUE))))))))

-----------------------------------------------------------------------------
(* The requests *)

(* what a request leaves in reqs: the handler and its arguments, the       *)
(* status of the response and the exception that left the handler, the     *)
(* tables as the request found them and the time it was served at          *)
Args(who, sid, name, password, n) ==
    [who |-> who, sid |-> sid, name |-> name, password |-> password, n |-> n]

Serve(op, args, outcome, bound) ==
    /\ Len(reqs) < bound
    /\ dbs' = outcome.w.dbs
    /\ uuid' = outcome.w.uuid
    /\ reqs' = Append(reqs, [op |-> op, args |-> args,
                             status |-> outcome.status, exc |-> outcome.exc,
                             before |-> dbs, at |-> now])
    /\ UNCHANGED <<table, file, prev, trace, exists, garbage, dump, register,
                   handles, threads, now, stacks>>

(* the outcome of a function called outside a handler: status is whether   *)
(* it returned something else than False                                   *)
Outcome(r) ==
    [w |-> r.w,
     status |-> IF r.exc # "" THEN None ELSE Bool(r.ret # Bool(FALSE)),
     exc |-> r.exc]

world == World(dbs, uuid)

CreateAccount(username, password, bound) ==
    /\ uuid # <<>>
    /\ Serve("create_account", Args(username, None, None, password, None),
             create_account(world, username, password), bound)

AccountLogin(username, password, bound) ==
    /\ uuid # <<>>
    /\ Serve("account_login", Args(username, None, None, password, None),
             account_login(world, username, password), bound)

(* sessions.validate_client before a handler that does nothing *)
ValidateClient(db_key, session_id, bound) ==
    /\ uuid # <<>>
    /\ Serve("validate_auth_data", Args(db_key, session_id, None, None, None),
             Outcome(validate_auth_data(world, db_key, session_id)), bound)

GetAccountData(db_key, session_id, bound) ==
    /\ uuid # <<>>
    /\ Serve("get_account_data", Args(db_key, session_id, None, None, None),
             get_account_data(world, db_key, session_id), bound)

SetAllowFriendRequests(db_key, session_id, state, bound) ==
    /\ uuid # <<>>
    /\ Serve("set_allow_friend_requests",
             Args(db_key, session_id, None, None, state),
             api_set_allow_friend_requests(world, db_key, session_id, state),
             bound)

DeleteAccount(db_key, password, bound) ==
    /\ uuid # <<>>
    /\ Serve("delete_account", Args(db_key, None, None, password, None),
             delete_account(world, db_key, password), bound)

(* User.create_user called by itself *)
CreateUser(username, password, bound) ==
    Serve("create_user", Args(username, None, None, password, None),
          Outcome(create_user(world, username, password)), bound)

(* Room.create_room called by itself *)
CreateRoom(name, admin_key, max_users, password, bound) ==
    Serve("create_room", Args(admin_key, None, name, password, max_users),
          Outcome(create_room(world, name, admin_key, max_users, password)),
          bound)

ApiCreateRoom(db_key, session_id, name, max_users, password, bound) ==
    /\ uuid # <<>>
    /\ Serve("api_create_room",
             Args(db_key, session_id, name, password, max_users),
             api_create_room(world, db_key, session_id, name, max_users,
                             password), bound)

JoinRoom(db_key, session_id, room_code, password, bound) ==
    /\ uuid # <<>>
    /\ Serve("join_room", Args(db_key, session_id, room_code, password, None),
             join_room(world, db_key, session_id, room_code, password), bound)

LeaveRoom(db_key, session_id, room_code, bound) ==
    /\ uuid # <<>>
    /\ Serve("leave_room", Args(db_key, session_id, room_code, None, None),
             leave_room(world, db_key, session_id, room_code), bound)

KickMember(db_key, session_id, room_code, member_name, bound) ==
    /\ uuid # <<>>
    /\ Serve("kick_member",
             Args(db_key, session_id, room_code, None, member_name),
             kick_member(world, db_key, session_id, room_code, member_name),
             bound)

(* time passes, up to a later instant *)
Pass(instant) ==
    /\ now < instant
    /\ now' = instant
    /\ UNCHANGED <<table, file, prev, trace, uuid, exists, garbage, dump,
                   register, handles, threads, dbs, stacks, reqs>>

-----------------------------------------------------------------------------
(* The clients' inputs *)

secret == <<"p", "w", "1", "2", "3">>

wrong == <<"w", "r", "o", "n", "g">>

attic == <<"a", "t", "t", "i", "c">>

nobody == <<"n", "o", "b", "o", "d", "y">>

MaxDraws == 9

(* uuid4().hex of the draws to come *)
SessionIds == [i \in 1..MaxDraws |-> <<"u">> \o IntChars(i)]

(* a session id no draw gave *)
forged == <<"f", "0">>

(* the session ids a client can send: those the table holds and a forged   *)
(* one. A client cannot send the id a later draw will give.                *)
KnownSessionIds ==
    { dbs["sessions"][k]["session_id"] : k \in DOMAIN dbs["sessions"] }
        \cup {Str(forged)}

(* the process after its start on empty tables *)
Fresh ==
    World([name \in {"users", "sessions", "rooms"} |-> EmptyFile], SessionIds)

(* ... after alice made her account *)
AliceRegistered == create_account(Fresh, Str(alice), Str(secret)).w

(* ... and carol hers *)
Registered == create_account(AliceRegistered, Str(carol), Str(secret)).w

(* ... after alice logged in *)
AliceLoggedIn == account_login(Registered, Str(alice), Str(secret)).w

(* ... and carol *)
LoggedIn == account_login(AliceLoggedIn, Str(carol), Str(secret)).w

(* the application in a world, no request logged *)
InitApp(w) ==
    /\ table = "users"
    /\ file = EmptyFile
    /\ prev = file
    /\ trace = <<>>
    /\ exists = TRUE
    /\ garbage = <<>>
    /\ dump = <<>>
    /\ register = <<>>
    /\ handles = <<>>
    /\ threads = <<>>
    /\ now = 0
    /\ stacks = <<>>
    /\ reqs = <<>>
    /\ dbs = w.dbs
    /\ uuid = w.uuid

KAlice == users_create_db_key(Str(alice))

KCarol == users_create_db_key(Str(carol))

KNobody == users_create_db_key(Str(nobody))

SessionCalls == 2

(* the instants the clock is read at: a second after the start, the last   *)
(* second of a session renewed at the start, and the second after it       *)
Instants == {1, SESSION_EXISTENCE_PERIOD, SESSION_EXISTENCE_PERIOD + 1}

(* accounts log in, change their settings and are validated, as time       *)
(* passes                                                                  *)
InitSessions == InitApp(Registered)

NextSessions ==
    \/ \E login \in {<<alice, secret>>, <<alice, wrong>>, <<nobody, secret>>} :
          AccountLogin(Str(login[1]), Str(login[2]), SessionCalls)
    \/ \E db_key \in {KAlice, KNobody, None}, session_id \in KnownSessionIds :
          ValidateClient(db_key, session_id, SessionCalls)
    \/ \E session_id \in KnownSessionIds, state \in {IntV(0), IntV(1), IntV(2)} :
          SetAllowFriendRequests(KAlice, session_id, state, SessionCalls)
    \/ \E instant \in Instants : Pass(instant)

SpecSessions == InitSessions /\ [][NextSessions]_vars

-----------------------------------------------------------------------------
(* The latest request, once one was served *)
Served == reqs[Len(reqs)]

(* the document the users table holds under a key *)
UserDoc(db_key) == dbs["users"][db_key.s]

(* C25: after User.set_allow_friend_requests(state) returned, the document *)
(* stored for the user has allow_friend_request equal to state, and so has *)
(* a User built afterwards with get_user_by_key. The method is reached     *)
(* through its handler, which answers True once the method returned and    *)
(* hands it bool(state).                                                   *)
C25_AllowFriendRequestStored ==
    (/\ reqs # <<>>
     /\ Served.op = "set_allow_friend_requests"
     /\ Served.status = Bool(TRUE))
        => /\ UserDoc(Served.args.who)["allow_friend_request"]
                 = Bool(Served.args.n.n # 0)
           /\ get_user_by_key(world, Served.args.who).ret.allow_friend_request
                 = Bool(Served.args.n.n # 0)

(* the session the sessions table held under the key of a validation when  *)
(* the validation was called                                               *)
SessionBefore(r) == r.before["sessions"][r.args.who.s]

(* the validation found the account and, under its key, a session with the *)
(* session id the client sent                                              *)
Matching(r) ==
    /\ r.args.who.s \in DOMAIN r.before["users"]
    /\ r.args.who.s \in DOMAIN r.before["sessions"]
    /\ SessionBefore(r)["session_id"] = r.args.sid

(* the expiry of that session had passed when the validation was called *)
ExpiredBefore(r) ==
    r.at > SessionBefore(r)["date_renewed"].n + SESSION_EXISTENCE_PERIOD

(* C26: _validate_auth_data returns True only if, when it is called, the   *)
(* users table contains db_key and the sessions table holds under db_key a *)
(* session with the supplied session_id whose expiry has not passed; when  *)
(* it returned True the stored date_renewed is the time of the call; when  *)
(* the matching session is expired the result is False and the session is  *)
(* removed from the table.                                                 *)
C26_ValidationSound ==
    /\ \A i \in 1..Len(reqs) :
          reqs[i].op = "validate_auth_data" =>
              /\ reqs[i].status = Bool(TRUE)
                    => Matching(reqs[i]) /\ ~ExpiredBefore(reqs[i])
              /\ (Matching(reqs[i]) /\ ExpiredBefore(reqs[i]))
                    => reqs[i].status = Bool(FALSE)
    /\ (reqs # <<>> /\ Served.op = "validate_auth_data") =>
          /\ Served.status = Bool(TRUE)
                => dbs["sessions"][Served.args.who.s]["date_renewed"]
                      = IntV(Served.at)
          /\ (Matching(Served) /\ ExpiredBefore(Served))
                => Served.args.who.s \notin DOMAIN dbs["sessions"]

(* a validation returned True an hour after the login that renewed the     *)
(* session, in the last second of the session                              *)
C26_Witness ==
    /\ reqs # <<>>
    /\ Served.op = "validate_auth_data"
    /\ Served.status = Bool(TRUE)
    /\ Served.at = SESSION_EXISTENCE_PERIOD
    /\ SessionBefore(Served)["date_renewed"] = IntV(0)

-----------------------------------------------------------------------------
(* Accounts that list their rooms, make a room and are deleted *)

DeleteCalls == 4

InitDelete == InitApp(LoggedIn)

NextDelete ==
    \/ \E session_id \in KnownSessionIds :
          GetAccountData(KAlice, session_id, DeleteCalls)
    \/ \E session_id \in KnownSessionIds :
          ApiCreateRoom(KAlice, session_id, Str(attic), IntV(2), None,
                        DeleteCalls)
    \/ \E db_key \in {KAlice, KCarol}, password \in {secret, wrong} :
          DeleteAccount(db_key, Str(password), DeleteCalls)

SpecDelete == InitDelete /\ [][NextDelete]_vars

(* the members lists of the rooms of a rooms table *)
MembersOf(rooms) == [k \in DOMAIN rooms |-> rooms[k]["members"]]

(* C27: an /accounts/delete request whose password check fails (response   *)
(* status False) leaves the users table, the sessions table and the        *)
(* members list of every room as they were before the request.             *)
C27_FailedDeleteChangesNothing ==
    (/\ reqs # <<>>
     /\ Served.op = "delete_account"
     /\ Served.status = Bool(FALSE))
        => /\ dbs["users"] = Served.before["users"]
           /\ dbs["sessions"] = Served.before["sessions"]
           /\ MembersOf(dbs["rooms"]) = MembersOf(Served.before["rooms"])

-----------------------------------------------------------------------------
(* Users and rooms made by User.create_user and Room.create_room *)

CreateCalls == 3

InitCreate == InitApp(Fresh)

NextCreate ==
    \/ \E username \in {alice, carol}, password \in {secret, wrong} :
          CreateUser(Str(username), Str(password), CreateCalls)
    \/ \E name \in {attic}, admin_key \in {KAlice, KNobody},
          max_users \in {IntV(0), IntV(3)},
          password \in {Str(<<>>), Str(hashpw(secret))} :
          CreateRoom(Str(name), admin_key, max_users, password, CreateCalls)

SpecCreate == InitCreate /\ [][NextCreate]_vars

(* create_user was called with a username that was stored *)
UserTaken(r) ==
    /\ r.op = "create_user"
    /\ users_create_db_key(r.args.who).s \in DOMAIN r.before["users"]

(* create_room was called with a name that was stored or with an admin_key *)
(* that is not a stored user                                               *)
RoomRefused(r) ==
    /\ r.op = "create_room"
    /\ \/ rooms_create_db_key(r.args.name).s \in DOMAIN r.before["rooms"]
       \/ r.args.who.s \notin DOMAIN r.before["users"]

(* C28: User.create_user with a stored username, and Room.create_room with *)
(* a stored name or an admin_key that is not a stored user, return False   *)
(* and leave the users and rooms tables unchanged; no create call changes  *)
(* the document of an account or a room that was stored before it.         *)
C28_CreateNeverReplaces ==
    reqs # <<>> =>
        /\ (UserTaken(Served) \/ RoomRefused(Served))
              => /\ Served.status = Bool(FALSE)
                 /\ dbs["users"] = Served.before["users"]
                 /\ dbs["rooms"] = Served.before["rooms"]
        /\ Served.op \in {"create_user", "create_room"}
              => \A name \in {"users", "rooms"} :
                    \A k \in DOMAIN Served.before[name] :
                        /\ k \in DOMAIN dbs[name]
                        /\ dbs[name][k] = Served.before[name][k]

(* create_user was called for a stored username with another password than *)
(* the stored one                                                          *)
C28_Witness ==
    /\ reqs # <<>>
    /\ UserTaken(Served)
    /\ ~checkpw(Served.args.password.s,
                Served.before["users"][users_create_db_key(Served.args.who).s]
                    ["password"].s)
    /\ Served.status = Bool(FALSE)

-----------------------------------------------------------------------------
(* Rooms made, joined and left *)

RoomCalls == 4

(* the session id the sessions table of a world holds for an account *)
SessionIdOf(w, db_key) == w.dbs["sessions"][db_key.s]["session_id"]

(* the code of the room attic *)
AtticCode ==
    Str(SubSeq(rooms_create_db_key(Str(attic)).s, 1, CODE_LENGTH))

InitRooms == InitApp(LoggedIn)

NextRooms ==
    \/ \E max_users \in {IntV(1), IntV(2), IntV(9)} :
          ApiCreateRoom(KAlice, SessionIdOf(world, KAlice), Str(attic),
                        max_users, None, RoomCalls)
    \/ \E max_users \in {IntV(0), IntV(1)} :
          CreateRoom(Str(attic), KAlice, max_users, Str(<<>>), RoomCalls)
    \/ \E db_key \in {KAlice, KCarol} :
          JoinRoom(db_key, SessionIdOf(world, db_key), AtticCode, None,
                   RoomCalls)
    \/ \E db_key \in {KAlice, KCarol} :
          LeaveRoom(db_key, SessionIdOf(world, db_key), AtticCode, RoomCalls)
    \/ KickMember(KAlice, SessionIdOf(world, KAlice), AtticCode, Str(carol),
                  RoomCalls)

SpecRooms == InitRooms /\ [][NextRooms]_vars

(* the rooms of a rooms table whose code is the one a request named *)
RoomsCoded(rooms, code) ==
    { k \in DOMAIN rooms : SubSeq(k, 1, CODE_LENGTH) = code.s }

(* the request named a room whose members list had max_users entries *)
FullBefore(r) ==
    \E k \in RoomsCoded(r.before["rooms"], r.args.name) :
        Len(r.before["rooms"][k]["members"].l)
            >= r.before["rooms"][k]["max_users"].n

(* the active_rooms of the accounts of a users table *)
ActiveRoomsOf(users) == [k \in DOMAIN users |-> users[k]["active_rooms"]]

(* C30: every stored room has 1 <= max_users <= 5 and a members list with  *)
(* at most max_users entries; a join request to a room whose members list  *)
(* already has max_users entries is refused (status False) and leaves the  *)
(* rooms table and the active rooms of every account as they were.         *)
C30_RoomCapacity ==
    /\ \A k \in DOMAIN dbs["rooms"] :
          /\ dbs["rooms"][k]["max_users"].t = "int"
          /\ 1 <= dbs["rooms"][k]["max_users"].n
          /\ dbs["rooms"][k]["max_users"].n <= MAX_USERS_PER_ROOM
          /\ dbs["rooms"][k]["members"].t = "list"
          /\ Len(dbs["rooms"][k]["members"].l)
                <= dbs["rooms"][k]["max_users"].n
    /\ (reqs # <<>> /\ Served.op = "join_room" /\ FullBefore(Served))
          => /\ Served.status = Bool(FALSE)
             /\ dbs["rooms"] = Served.before["rooms"]
             /\ ActiveRoomsOf(dbs["users"])
                   = ActiveRoomsOf(Served.before["users"])

(* carol asked to join the room of two that alice and carol were in *)
C30_Witness ==
    /\ reqs # <<>>
    /\ Served.op = "join_room"
    /\ Served.args.who = KCarol
    /\ FullBefore(Served)
    /\ \E k \in DOMAIN dbs["rooms"] :
          /\ dbs["rooms"][k]["max_users"] = IntV(2)
          /\ dbs["rooms"][k]["members"] = List(<<KAlice, KCarol>>)

====
